---------------------------- MODULE Spec2Model ----------------------------
(***************************************************************************)
(* State-machine model of the irodsfs I/O core: the File node operations   *)
(* (src/irodsfs/file.go) and the FileHandle operations                     *)
(* (src/irodsfs/filehandle.go), over a backend object store, a handle      *)
(* registry and per-handle reader/writer pipelines.                        *)
(*                                                                         *)
(* Byte strings are sequences over 0..2 (0 is the zero byte a backend      *)
(* fills holes with); sizes and the I/O block size are scaled down.        *)
(***************************************************************************)
EXTENDS Integers, Sequences, FiniteSets, TLC

(* ----------------------------- bounds --------------------------------- *)

\* handle ids ever handed out by the backend OpenFile
MaxHandles == 2
\* largest backend object, in bytes
MaxSize == 3

(* ------------------------ program constants --------------------------- *)

\* iRODSIOBlockSize (16 MiB in the source), scaled to 2 bytes
iRODSIOBlockSize == 2
\* os.O_WRONLY, os.O_RDWR, os.O_TRUNC, os.O_APPEND (linux)
O_WRONLY == 1
O_RDWR == 2
O_TRUNC == 512
O_APPEND == 1024

\* capacity of the async writer's work queue
MaxQueue == 2

\* the most records a handle's lock table holds
MaxLocks == 2

\* the most Release calls the kernel makes on one handle
MaxReleases == 2

\* the Removexattr calls holding a file's read lock for one attribute
MaxReaders == 2

\* syscall.F_RDLCK, F_WRLCK, F_UNLCK (linux)
F_RDLCK == 0
F_WRLCK == 1
F_UNLCK == 2

Handles == 1..MaxHandles
\* file nodes of the mount: 1 sits in a writable remote mapping, 2 in a
\* read-only remote mapping, 3 is covered by a virtual directory only and
\* 4 by no mapping at all
Files == {1, 2, 3, 4}
RemoteFiles == {1, 2}
Bytes == {1, 2}
\* extended attribute names: 1 is an ordinary attribute, 2 an internal one
\* the filesystem does not handle
Attrs == {1, 2}
\* "the backend has no such attribute" (GetXattr returning nil)
NoValue == <<-1>>
Sizes == 0..MaxSize

Min(a, b) == IF a < b THEN a ELSE b
Max(a, b) == IF a > b THEN a ELSE b

\* vpathManager.GetClosestEntry(file.path): the kind of the closest entry
VPathKind(f) ==
    CASE f = 1 -> "remote"
      [] f = 2 -> "remote"
      [] f = 3 -> "virtual"
      [] OTHER -> "none"

\* vpathEntry.ReadOnly
VPathReadOnly(f) == f = 2

(* ----------------------------- open modes ----------------------------- *)

FileOpenModeReadOnly == "r"
FileOpenModeReadWrite == "r+"
FileOpenModeWriteOnly == "w"
FileOpenModeWriteTruncate == "w+"
FileOpenModeAppend == "a"
FileOpenModeReadAppend == "a+"

OpenModes ==
    {FileOpenModeReadOnly, FileOpenModeReadWrite, FileOpenModeWriteOnly,
     FileOpenModeWriteTruncate, FileOpenModeAppend, FileOpenModeReadAppend}

IsReadOnly(mode) == mode = FileOpenModeReadOnly
IsWriteOnly(mode) ==
    mode \in {FileOpenModeWriteOnly, FileOpenModeWriteTruncate, FileOpenModeAppend}
IsReadMode(mode) ==
    mode \in {FileOpenModeReadOnly, FileOpenModeReadWrite, FileOpenModeReadAppend}
IsWriteMode(mode) == mode # FileOpenModeReadOnly

\* flags & bit == bit, for a one-bit mask
HasFlag(flags, bit) == (flags \div bit) % 2 = 1

\* the flag words Open is tried with
FlagWords ==
    {0, O_WRONLY, O_RDWR, O_WRONLY + O_RDWR, O_WRONLY + O_APPEND,
     O_WRONLY + O_TRUNC, O_WRONLY + O_APPEND + O_TRUNC, O_RDWR + O_TRUNC,
     O_APPEND, O_TRUNC}

\* File.Open's translation with the O_RDWR test ahead of the O_WRONLY one
OpenModeOfRdwrFirst(flags) ==
    IF HasFlag(flags, O_RDWR) THEN FileOpenModeReadWrite
    ELSE IF HasFlag(flags, O_WRONLY)
    THEN IF HasFlag(flags, O_APPEND) THEN FileOpenModeAppend
         ELSE IF HasFlag(flags, O_TRUNC) THEN FileOpenModeWriteTruncate
         ELSE FileOpenModeWriteOnly
    ELSE FileOpenModeReadOnly

\* File.Open's translation without the O_TRUNC branch
OpenModeOfNoTrunc(flags) ==
    IF HasFlag(flags, O_WRONLY)
    THEN IF HasFlag(flags, O_APPEND) THEN FileOpenModeAppend
         ELSE FileOpenModeWriteOnly
    ELSE IF HasFlag(flags, O_RDWR) THEN FileOpenModeReadWrite
    ELSE FileOpenModeReadOnly

\* File.Open's translation of the POSIX flag word
OpenModeOf(flags) ==
    IF HasFlag(flags, O_WRONLY)
    THEN IF HasFlag(flags, O_APPEND) THEN FileOpenModeAppend
         ELSE IF HasFlag(flags, O_TRUNC) THEN FileOpenModeWriteTruncate
         ELSE FileOpenModeWriteOnly
    ELSE IF HasFlag(flags, O_RDWR) THEN FileOpenModeReadWrite
    ELSE FileOpenModeReadOnly

(* --------------------------- byte strings ----------------------------- *)

Zeros(n) == [i \in 1..n |-> 0]

Take(s, n) == SubSeq(s, 1, Min(n, Len(s)))

\* the object after a backend write of data at offset off (holes read 0)
WriteBytes(content, off, data) ==
    LET n == Max(Len(content), off + Len(data))
    IN  [i \in 1..n |->
            IF i > off /\ i <= off + Len(data) THEN data[i - off]
            ELSE IF i <= Len(content) THEN content[i]
            ELSE 0]

\* the object after a backend truncate to size
TruncateBytes(content, size) ==
    IF size <= Len(content) THEN SubSeq(content, 1, size)
    ELSE content \o Zeros(size - Len(content))

\* the bytes of content in [off, off+n)
ReadBytes(content, off, n) ==
    IF off >= Len(content) THEN << >>
    ELSE SubSeq(content, off + 1, Min(off + n, Len(content)))

\* the byte strings a Write carries: at most one block
DataSet ==
    UNION {[1..n -> Bytes] : n \in 0..iRODSIOBlockSize}

(* ------------------------------ state --------------------------------- *)

VARIABLES
    terminated,     \* fs.terminated
    fileHandleMap,  \* fs.fileHandleMap: [ids, byPath]
    fh,             \* the FileHandle objects, by backend handle id
    wr,             \* the writer pipeline of each handle
    rd,             \* the reader pipeline of each handle
    backend,        \* the backend objects: content by remote file
    tr,             \* File.Truncate calls in flight, by file
    locks,          \* localFileLockManager of each handle: its lock records
    xattrs,         \* the backend's extended attributes, by remote file
    ret,            \* what the last operation returned to its caller
    hist            \* history of the run, read by the properties only

mvars == <<terminated, fileHandleMap, fh, wr, rd, backend, tr, locks, xattrs, ret>>
vars == <<terminated, fileHandleMap, fh, wr, rd, backend, tr, locks, xattrs, ret, hist>>

\* the call of a handle that passed its checks and has not yet reached its
\* pipeline or the backend: the operation and its arguments
NoCall == [op |-> "", off |-> 0, n |-> 0, data |-> << >>]

\* a FileHandle object. rel: where the Release running on it stands
\* before closeFunc ("": none runs; "reader": reader.Release() returned,
\* handle.reader not yet nil; "writer": before the writer; "wstore":
\* writer.Release() returned, handle.writer not yet nil; "start": before
\* closeFunc); queued: the closeFunc calls waiting for handle.mutex;
\* locking: the lock requests whose Lock has scanned the table and has not
\* inserted its record yet
NoHandle ==
    [st |-> "unused", file |-> 0, mode |-> "", reader |-> "nil",
     writer |-> "nil", size |-> 0, closed |-> FALSE, closing |-> FALSE,
     rel |-> "", queued |-> 0, locking |-> {}, call |-> NoCall]

NoBuf == [off |-> 0, data |-> << >>]
\* released: Release() was called on the pipeline
NoWriter == [buf |-> NoBuf, queue |-> << >>, err |-> FALSE, released |-> FALSE]
NoReader == [cache |-> << >>, next |-> -1, err |-> FALSE, released |-> FALSE]
\* the holders of a file's mutex. A File.Truncate call holding the lock:
\* where it stands, what it was asked and found, and what it did (called:
\* the handles whose Truncate it called; viaPath: the truncates it issued by
\* path; issued: the truncates the backend received). rx: by attribute, the
\* Removexattr calls holding the read lock between their GetXattr and
\* their RemoveXattr
NoTruncate == [pc |-> "idle", caller |-> "", size |-> 0, statSize |-> 0,
               errno |-> "OK", called |-> {}, viaPath |-> 0, issued |-> 0,
               rx |-> [a \in Attrs |-> 0]]

\* h is open and no Release of it is running
Live(h) == fh[h].st = "live" /\ fh[h].rel = ""

\* no call of the handle is between its checks and its pipeline
Quiet(h) == fh[h].call = NoCall

\* the result record an operation leaves for its caller
Result(op, f, h, errno, n, data) ==
    [op |-> op, f |-> f, h |-> h, errno |-> errno, n |-> n, data |-> data]


(* -------------------- handle registry (FileHandleMap) ----------------- *)

\* fileHandleMap.Add(handle): both indexes, under one mutex
MapAdd(m, h, f) ==
    [ids |-> m.ids \cup {h},
     byPath |-> [m.byPath EXCEPT ![f] = @ \cup {h}]]

\* fileHandleMap.Remove(id)
MapRemove(m, h) ==
    [ids |-> m.ids \ {h},
     byPath |-> [p \in DOMAIN m.byPath |-> m.byPath[p] \ {h}]]

\* fileHandleMap.ListByPath(path)
ListByPath(m, f) == m.byPath[f]

(* ------------------------- writer pipeline ---------------------------- *)
(* A pipeline state is paired with the backend object it writes to:       *)
(* P = [w |-> writer state, c |-> object content].                        *)

\* the upload worker takes the task at the head of the queue
Upload(P, ok) ==
    LET t == Head(P.w.queue)
        q == Tail(P.w.queue)
    IN  IF P.w.err THEN [w |-> [P.w EXCEPT !.queue = q], c |-> P.c]
        ELSE IF ok
        THEN [w |-> [P.w EXCEPT !.queue = q], c |-> WriteBytes(P.c, t.off, t.data)]
        ELSE [w |-> [P.w EXCEPT !.queue = q, !.err = TRUE], c |-> P.c]

\* layer 2 hands a full or superseded buffer to the bounded queue; a
\* submitter finding the queue full waits for the worker to take the head
Submit(P, t, ok) ==
    LET R == IF Len(P.w.queue) >= MaxQueue THEN Upload(P, ok) ELSE P
    IN  [w |-> [R.w EXCEPT !.queue = Append(@, t)], c |-> R.c]

\* the buffer can take data at off on its trailing edge
Sequential(b, off, data) ==
    /\ b.data # << >>
    /\ off = b.off + Len(b.data)
    /\ Len(b.data) + Len(data) <= iRODSIOBlockSize

\* AsyncWriter.WriteAt over the buffered writer (the sticky error is
\* tested by the caller)
AsyncWriteAt(P, off, data, ok) ==
    LET b  == P.w.buf
        P1 == IF b.data # << >> /\ ~Sequential(b, off, data)
              THEN Submit([w |-> [P.w EXCEPT !.buf = NoBuf], c |-> P.c], b, ok)
              ELSE P
        nb == IF P1.w.buf.data = << >> THEN [off |-> off, data |-> data]
              ELSE [off |-> b.off, data |-> b.data \o data]
    IN  IF Len(nb.data) >= iRODSIOBlockSize
        THEN Submit([w |-> [P1.w EXCEPT !.buf = NoBuf], c |-> P1.c], nb, ok)
        ELSE [w |-> [P1.w EXCEPT !.buf = nb], c |-> P1.c]

RECURSIVE Drain(_, _)
\* the worker empties the queue, in order
Drain(P, ok) ==
    IF P.w.queue = << >> THEN P ELSE Drain(Upload(P, ok), ok)

\* AsyncWriter.Flush: the buffer is handed over and the queue drained
AsyncFlush(P, ok) ==
    LET P1 == IF P.w.buf.data # << >>
              THEN [w |-> [P.w EXCEPT !.buf = NoBuf,
                                      !.queue = Append(@, P.w.buf)],
                    c |-> P.c]
              ELSE P
    IN  Drain(P1, ok)

\* SyncWriter.WriteAt: one backend write
SyncWriteAt(P, off, data, ok) ==
    IF ok THEN [w |-> P.w, c |-> WriteBytes(P.c, off, data)]
    ELSE [w |-> [P.w EXCEPT !.err = TRUE], c |-> P.c]

\* Writer.WriteAt, by writer variant
WriterWriteAt(kind, P, off, data, ok) ==
    CASE kind = "async" -> AsyncWriteAt(P, off, data, ok)
      [] kind = "sync" -> SyncWriteAt(P, off, data, ok)
      [] OTHER -> [w |-> [P.w EXCEPT !.err = TRUE], c |-> P.c]

\* Writer.Flush, by writer variant
WriterFlush(kind, P, ok) ==
    IF kind = "async" THEN AsyncFlush(P, ok) ELSE P

(* ------------------------- reader pipeline ---------------------------- *)

\* block i as the reader sees it: from its cache, else from the backend
BlockOf(cache, c, i) ==
    IF i \in DOMAIN cache THEN cache[i]
    ELSE ReadBytes(c, i * iRODSIOBlockSize, iRODSIOBlockSize)

RECURSIVE ReadBlocks(_, _, _, _)
\* the bytes of [off, off+n), block by block: never one cross-block read
ReadBlocks(cache, c, off, n) ==
    LET i    == off \div iRODSIOBlockSize
        blk  == BlockOf(cache, c, i)
        o    == off - i * iRODSIOBlockSize
        part == IF o >= Len(blk) THEN << >>
                ELSE SubSeq(blk, o + 1, Min(o + n, Len(blk)))
    IN  IF n = 0 THEN << >>
        ELSE IF Len(blk) < iRODSIOBlockSize \/ o + n <= iRODSIOBlockSize
        THEN part
        ELSE part \o ReadBlocks(cache, c, (i + 1) * iRODSIOBlockSize,
                                n - Len(part))

RECURSIVE TouchedBlocks(_, _, _, _)
\* the blocks that read goes through
TouchedBlocks(cache, c, off, n) ==
    LET i   == off \div iRODSIOBlockSize
        blk == BlockOf(cache, c, i)
        o   == off - i * iRODSIOBlockSize
    IN  IF n = 0 THEN {}
        ELSE IF Len(blk) < iRODSIOBlockSize \/ o + n <= iRODSIOBlockSize
        THEN {i}
        ELSE {i} \cup TouchedBlocks(cache, c, (i + 1) * iRODSIOBlockSize,
                                    n - (iRODSIOBlockSize - o))

\* the cache with the blocks of S fetched from the backend
Fetched(cache, c, S) ==
    [i \in DOMAIN cache \cup S |-> BlockOf(cache, c, i)]

MaxOf(S) == CHOOSE x \in S : \A y \in S : y <= x

\* the block to fetch speculatively after serving the blocks of S
Speculate(cache, size, S) ==
    LET j == MaxOf(S) + 1
    IN  IF j * iRODSIOBlockSize < size /\ j \notin DOMAIN cache THEN j ELSE -1

\* AsyncCacheThroughReader.ReadAt: [r |-> reader state, data, failed]
AsyncReadAt(r, c, size, off, n, ok) ==
    LET S     == TouchedBlocks(r.cache, c, off, n)
        need  == S \ DOMAIN r.cache
        cache == Fetched(r.cache, c, S)
    IN  IF r.err THEN [r |-> r, data |-> << >>, failed |-> TRUE]
        ELSE IF off >= size \/ n = 0
        THEN [r |-> r, data |-> << >>, failed |-> FALSE]
        ELSE IF need # {} /\ ~ok
        THEN [r |-> [r EXCEPT !.err = TRUE], data |-> << >>, failed |-> TRUE]
        ELSE [r |-> [r EXCEPT !.cache = cache,
                              !.next = Speculate(cache, size, S)],
              data |-> ReadBlocks(r.cache, c, off, n), failed |-> FALSE]

\* SyncReader.ReadAt: one backend read
SyncReadAt(r, c, off, n, ok) ==
    IF r.err THEN [r |-> r, data |-> << >>, failed |-> TRUE]
    ELSE IF ok THEN [r |-> r, data |-> ReadBytes(c, off, n), failed |-> FALSE]
    ELSE [r |-> [r EXCEPT !.err = TRUE], data |-> << >>, failed |-> TRUE]

\* Reader.ReadAt, by reader variant
ReaderReadAt(kind, r, c, size, off, n, ok) ==
    CASE kind = "async" -> AsyncReadAt(r, c, size, off, n, ok)
      [] kind = "sync" -> SyncReadAt(r, c, off, n, ok)
      [] OTHER -> [r |-> r, data |-> << >>, failed |-> TRUE]

(* ------------------------------ Init ---------------------------------- *)

InitModel ==
    /\ terminated = FALSE
    /\ fileHandleMap = [ids |-> {}, byPath |-> [f \in RemoteFiles |-> {}]]
    /\ fh = [h \in Handles |-> NoHandle]
    /\ wr = [h \in Handles |-> NoWriter]
    /\ rd = [h \in Handles |-> NoReader]
    /\ backend = [f \in RemoteFiles |-> IF f = 1 THEN <<2, 1>> ELSE <<1, 2, 1>>]
    /\ tr = [f \in Files |-> NoTruncate]
    /\ locks = [h \in Handles |-> {}]
    /\ xattrs = [f \in RemoteFiles |-> [a \in Attrs |-> NoValue]]
    /\ ret = [op |-> "none", f |-> 0, h |-> 0, errno |-> "OK", n |-> 0,
              data |-> << >>]

\* the history before anything ran
NoHist ==
    [tick |-> 0,
     want |-> << >>,
     acc |-> << >>,
     stuck |-> {},
     tg |-> [h |-> 0, size |-> 0, phase |-> 0],
     atRet |-> [len |-> 0, viaHandle |-> FALSE],
     rt |-> [phase |-> 0, flags |-> 0, pre |-> << >>, data |-> << >>,
             got |-> << >>],
     rw |-> [off |-> 0, data |-> << >>, read |-> FALSE],
     lk |-> [type |-> F_UNLCK, pid |-> 0, start |-> 0, end |-> 0],
     oflags |-> 0,
     ores |-> <<"ok", TRUE>>,
     io |-> [off |-> 0, len |-> 0],
     xa |-> [f |-> 0, a |-> 0, dest |-> 0, o |-> "ok"],
     sa |-> [f |-> 0, h |-> 0, hasSize |-> FALSE, size |-> 0, o |-> "ok",
             pre |-> << >>],
     input |-> [kind |-> "none", ep |-> << >>, cfg |-> << >>],
     rel |-> {},
     cnt |-> [h \in Handles |-> [release |-> 0, remove |-> 0, close |-> 0]],
     xl |-> [f \in RemoteFiles |-> [a \in Attrs |-> <<-2>>]],
     pair |-> [phase |-> 0, first |-> << >>, second |-> << >>,
               held1 |-> FALSE, held2 |-> FALSE, e1 |-> "", e2 |-> "",
               apart |-> TRUE]]

(* --------------------------- NewFileHandle ---------------------------- *)

\* a construction that gives every handle that can read the prefetching
\* reader
ReaderForPrefetchAll(mode) ==
    IF IsWriteOnly(mode) THEN "nilreader" ELSE "async"

\* the reader and writer NewFileHandle builds for an open mode
ReaderFor(mode) ==
    IF IsReadOnly(mode) THEN "async"
    ELSE IF IsWriteOnly(mode) THEN "nilreader"
    ELSE "sync"

WriterFor(mode) ==
    IF IsReadOnly(mode) THEN "nilwriter"
    ELSE IF IsWriteOnly(mode) THEN "async"
    ELSE "sync"

NewFileHandle(f, mode, size) ==
    [st |-> "live", file |-> f, mode |-> mode, reader |-> ReaderFor(mode),
     writer |-> WriterFor(mode), size |-> size, closed |-> FALSE,
     closing |-> FALSE, rel |-> "", queued |-> 0, locking |-> {},
     call |-> NoCall]

(* ------------------------------ File.Open ----------------------------- *)

\* the backend OpenFile: WriteTruncate empties the object
OpenedContent(c, mode) == IF mode = FileOpenModeWriteTruncate THEN << >> ELSE c

FreeIDs == {h \in Handles : fh[h].st = "unused"}

FileOpen(f, flags, outcome, ctorOK) ==
    LET mode == OpenModeOf(flags)
        Fail(errno) ==
            /\ ret' = Result("Open", f, 0, errno, 0, << >>)
            /\ UNCHANGED <<terminated, fileHandleMap, fh, wr, rd, backend, tr, locks, xattrs>>
    IN  IF terminated THEN Fail("ECONNABORTED")
        ELSE /\ tr[f].pc = "idle"
             /\ IF VPathKind(f) = "none" THEN Fail("EREMOTEIO")
                ELSE IF VPathKind(f) = "virtual" THEN Fail("EPERM")
                ELSE IF VPathReadOnly(f) /\ mode # FileOpenModeReadOnly
                THEN Fail("EREMOTEIO")
                ELSE IF outcome = "notfound" THEN Fail("ENOENT")
                ELSE IF outcome = "fail" THEN Fail("EREMOTEIO")
                ELSE /\ FreeIDs # {}
                     /\ LET h == CHOOSE x \in FreeIDs : \A y \in FreeIDs : x <= y
                            c == OpenedContent(backend[f], mode)
                        IN  /\ backend' = [backend EXCEPT ![f] = c]
                            /\ IF IsReadOnly(mode) /\ ~ctorOK
                               THEN /\ fh' = [fh EXCEPT ![h] =
                                               [NoHandle EXCEPT !.st = "leaked",
                                                                !.file = f,
                                                                !.mode = mode]]
                                    /\ ret' = Result("Open", f, 0, "EREMOTEIO", 0, << >>)
                                    /\ UNCHANGED fileHandleMap
                               ELSE /\ fh' = [fh EXCEPT ![h] =
                                               NewFileHandle(f, mode, Len(c))]
                                    /\ fileHandleMap' = MapAdd(fileHandleMap, h, f)
                                    /\ ret' = Result("Open", f, h, "OK", 0, << >>)
                            /\ UNCHANGED <<terminated, wr, rd, tr, locks, xattrs>>

(* --------------------------- FileHandle.Read -------------------------- *)
(* Read, Write, Flush and Fsync take no lock. Each is two steps: the      *)
(* checks, which load handle.reader or handle.writer to test it against   *)
(* nil, and the call, which loads the field again to call the pipeline.   *)
(* Release stores nil in these fields, under no lock either: the second   *)
(* load gives the field as it is at the call or, the store not yet seen,  *)
(* the pipeline NewFileHandle built (seen). A call through nil panics.    *)

\* the checks of a Read that hands every request to the reader, whatever
\* the open mode
ReadEnterUnchecked(h, n, off) ==
    IF terminated
    THEN /\ ret' = Result("Read", fh[h].file, h, "ECONNABORTED", 0, << >>)
         /\ UNCHANGED <<terminated, fileHandleMap, fh, wr, rd, backend, tr, locks, xattrs>>
    ELSE /\ Quiet(h)
         /\ fh' = [fh EXCEPT ![h].call =
                     [op |-> "Read", off |-> off, n |-> n, data |-> << >>]]
         /\ UNCHANGED <<terminated, fileHandleMap, wr, rd, backend, tr, locks, xattrs, ret>>

\* Read up to the call of the reader: the entry check, the mode check, the
\* nil check of handle.reader and the test of the offset against the size
\* recorded at open
ReadEnter(h, n, off) ==
    LET Return(errno) ==
            /\ ret' = Result("Read", fh[h].file, h, errno, 0, << >>)
            /\ UNCHANGED <<terminated, fileHandleMap, fh, wr, rd, backend, tr, locks, xattrs>>
    IN  IF terminated THEN Return("ECONNABORTED")
        ELSE IF ~IsReadMode(fh[h].mode) THEN Return("EBADFD")
        ELSE IF fh[h].reader = "nil" THEN Return("EBADFD")
        ELSE IF off > fh[h].size THEN Return("OK")
        ELSE /\ Quiet(h)
             /\ fh' = [fh EXCEPT ![h].call =
                         [op |-> "Read", off |-> off, n |-> n, data |-> << >>]]
             /\ UNCHANGED <<terminated, fileHandleMap, wr, rd, backend, tr, locks, xattrs, ret>>

\* handle.reader.ReadAt(dest, offset) and the return; a reader on which
\* Release() was called serves the call or turns it away
ReadCall(h, ok, seen) ==
    LET f == fh[h].file
        c == fh[h].call
        res == IF rd[h].released /\ ~ok
               THEN [r |-> rd[h], data |-> << >>, failed |-> TRUE]
               ELSE ReaderReadAt(seen, rd[h], backend[f], fh[h].size, c.off, c.n, ok)
    IN  /\ c.op = "Read"
        /\ seen \in {fh[h].reader, ReaderFor(fh[h].mode)}
        /\ fh' = [fh EXCEPT ![h].call = NoCall]
        /\ IF seen = "nil"
           THEN /\ ret' = Result("Read", f, h, "panic", 0, << >>)
                /\ UNCHANGED rd
           ELSE /\ rd' = [rd EXCEPT ![h] = res.r]
                /\ ret' = Result("Read", f, h,
                                 IF res.failed THEN "EREMOTEIO" ELSE "OK",
                                 Len(res.data), res.data)
        /\ UNCHANGED <<terminated, fileHandleMap, wr, backend, tr, locks, xattrs>>

\* the reader's background fetch of the block it speculated on
Prefetch(h, ok) ==
    /\ fh[h].reader = "async"
    /\ rd[h].next >= 0
    /\ ~rd[h].err
    /\ ~rd[h].released
    /\ rd' = [rd EXCEPT ![h] =
                IF ok
                THEN [@ EXCEPT !.cache = Fetched(@, backend[fh[h].file], {rd[h].next}),
                               !.next = -1]
                ELSE [@ EXCEPT !.err = TRUE, !.next = -1]]
    /\ UNCHANGED <<terminated, fileHandleMap, fh, wr, backend, tr, locks, xattrs, ret>>

(* -------------------------- FileHandle.Write -------------------------- *)

\* the checks of a Write that hands empty data to the writer too
WriteEnterSubmitEmpty(h, data, off) ==
    LET Return(errno) ==
            /\ ret' = Result("Write", fh[h].file, h, errno, 0, << >>)
            /\ UNCHANGED <<terminated, fileHandleMap, fh, wr, rd, backend, tr, locks, xattrs>>
    IN  IF terminated THEN Return("ECONNABORTED")
        ELSE IF ~IsWriteMode(fh[h].mode) THEN Return("EBADFD")
        ELSE IF fh[h].writer = "nil" THEN Return("EBADFD")
        ELSE IF off < 0 THEN Return("EBADFD")
        ELSE /\ Quiet(h)
             /\ fh' = [fh EXCEPT ![h].call =
                         [op |-> "Write", off |-> off, n |-> 0, data |-> data]]
             /\ UNCHANGED <<terminated, fileHandleMap, wr, rd, backend, tr, locks, xattrs, ret>>

\* Write up to the call of the writer: the entry check, the mode check,
\* the nil check of handle.writer, the test for empty data and the test of
\* the offset
WriteEnter(h, data, off) ==
    LET Return(errno) ==
            /\ ret' = Result("Write", fh[h].file, h, errno, 0, << >>)
            /\ UNCHANGED <<terminated, fileHandleMap, fh, wr, rd, backend, tr, locks, xattrs>>
    IN  IF terminated THEN Return("ECONNABORTED")
        ELSE IF ~IsWriteMode(fh[h].mode) THEN Return("EBADFD")
        ELSE IF fh[h].writer = "nil" THEN Return("EBADFD")
        ELSE IF Len(data) = 0 THEN Return("OK")
        ELSE IF off < 0 THEN Return("EBADFD")
        ELSE /\ Quiet(h)
             /\ fh' = [fh EXCEPT ![h].call =
                         [op |-> "Write", off |-> off, n |-> 0, data |-> data]]
             /\ UNCHANGED <<terminated, fileHandleMap, wr, rd, backend, tr, locks, xattrs, ret>>

\* the call of a writer of the given variant and the return; the writer
\* turns the call away once it holds an error, and a writer on which
\* Release() was called takes the call or turns it away
WriteCallVia(kind, h, ok) ==
    LET f == fh[h].file
        c == fh[h].call
        P == WriterWriteAt(kind, [w |-> wr[h], c |-> backend[f]], c.off, c.data, ok)
    IN  /\ fh' = [fh EXCEPT ![h].call = NoCall]
        /\ IF kind = "nil"
           THEN /\ ret' = Result("Write", f, h, "panic", 0, << >>)
                /\ UNCHANGED <<wr, backend>>
           ELSE IF wr[h].err \/ (wr[h].released /\ ~ok)
           THEN /\ ret' = Result("Write", f, h, "EREMOTEIO", 0, << >>)
                /\ UNCHANGED <<wr, backend>>
           ELSE /\ wr' = [wr EXCEPT ![h] = P.w]
                /\ backend' = [backend EXCEPT ![f] = P.c]
                /\ ret' = Result("Write", f, h,
                                 IF P.w.err THEN "EREMOTEIO" ELSE "OK",
                                 IF P.w.err THEN 0 ELSE Len(c.data), << >>)
        /\ UNCHANGED <<terminated, fileHandleMap, rd, tr, locks, xattrs>>

\* a Write handing its bytes straight to the backend while earlier bytes
\* wait in the buffer
WriteCallThrough(h, ok, seen) ==
    /\ fh[h].call.op = "Write"
    /\ seen \in {fh[h].writer, WriterFor(fh[h].mode)}
    /\ WriteCallVia(IF wr[h].buf.data # << >> /\ seen # "nil" THEN "sync" ELSE seen,
                    h, ok)

\* handle.writer.WriteAt(data, offset) and the return
WriteCall(h, ok, seen) ==
    /\ fh[h].call.op = "Write"
    /\ seen \in {fh[h].writer, WriterFor(fh[h].mode)}
    /\ WriteCallVia(seen, h, ok)

\* the async writer's worker uploads the task at the head of the queue
WriterWorker(h, ok) ==
    /\ fh[h].writer = "async"
    /\ wr[h].queue # << >>
    /\ ~wr[h].released
    /\ LET P == Upload([w |-> wr[h], c |-> backend[fh[h].file]], ok)
       IN  /\ wr' = [wr EXCEPT ![h] = P.w]
           /\ backend' = [backend EXCEPT ![fh[h].file] = P.c]
    /\ UNCHANGED <<terminated, fileHandleMap, fh, rd, tr, locks, xattrs, ret>>

(* --------------------- FileHandle.Flush and Fsync --------------------- *)

\* Flush and Fsync up to the call of the writer: the entry check and the
\* nil check of handle.writer
FlushEnter(op, h) ==
    LET Return(errno) ==
            /\ ret' = Result(op, fh[h].file, h, errno, 0, << >>)
            /\ UNCHANGED <<terminated, fileHandleMap, fh, wr, rd, backend, tr, locks, xattrs>>
    IN  IF terminated THEN Return("ECONNABORTED")
        ELSE IF fh[h].writer = "nil" THEN Return("OK")
        ELSE /\ Quiet(h)
             /\ fh' = [fh EXCEPT ![h].call =
                         [op |-> op, off |-> 0, n |-> 0, data |-> << >>]]
             /\ UNCHANGED <<terminated, fileHandleMap, wr, rd, backend, tr, locks, xattrs, ret>>

\* Flush and Fsync returning without writer.Flush()
FlushCallNoDrain(h, ok, seen) ==
    /\ fh[h].call.op \in {"Flush", "Fsync"}
    /\ seen \in {fh[h].writer, WriterFor(fh[h].mode)}
    /\ fh' = [fh EXCEPT ![h].call = NoCall]
    /\ ret' = Result(fh[h].call.op, fh[h].file, h,
                     IF seen = "nil" THEN "panic" ELSE "OK", 0, << >>)
    /\ UNCHANGED <<terminated, fileHandleMap, wr, rd, backend, tr, locks, xattrs>>

\* handle.writer.Flush() and the return; a writer on which Release() was
\* called flushes or turns the call away
FlushCall(h, ok, seen) ==
    LET f == fh[h].file
        c == fh[h].call
        P == WriterFlush(seen, [w |-> wr[h], c |-> backend[f]], ok)
    IN  /\ c.op \in {"Flush", "Fsync"}
        /\ seen \in {fh[h].writer, WriterFor(fh[h].mode)}
        /\ fh' = [fh EXCEPT ![h].call = NoCall]
        /\ IF seen = "nil"
           THEN /\ ret' = Result(c.op, f, h, "panic", 0, << >>)
                /\ UNCHANGED <<wr, backend>>
           ELSE IF wr[h].released /\ ~ok
           THEN /\ ret' = Result(c.op, f, h, "EREMOTEIO", 0, << >>)
                /\ UNCHANGED <<wr, backend>>
           ELSE /\ wr' = [wr EXCEPT ![h] = P.w]
                /\ backend' = [backend EXCEPT ![f] = P.c]
                /\ ret' = Result(c.op, f, h,
                                 IF P.w.err THEN "EREMOTEIO" ELSE "OK", 0, << >>)
        /\ UNCHANGED <<terminated, fileHandleMap, rd, tr, locks, xattrs>>

(* ------------------------- FileHandle.Truncate ------------------------ *)

\* FileHandle.Truncate without its entry check
HandleTruncateUnguarded(h, size, ok) ==
    LET c == backend[fh[h].file]
    IN  IF ~IsWriteMode(fh[h].mode)
        THEN [errno |-> "EBADFD", c |-> c, issued |-> 0]
        ELSE IF ok
        THEN [errno |-> "OK", c |-> TruncateBytes(c, size), issued |-> 1]
        ELSE [errno |-> "EREMOTEIO", c |-> c, issued |-> 1]

\* what FileHandle.Truncate does and returns: [errno, c, issued]
HandleTruncate(h, size, ok) ==
    LET c == backend[fh[h].file]
    IN  IF terminated THEN [errno |-> "ECONNABORTED", c |-> c, issued |-> 0]
        ELSE IF ~IsWriteMode(fh[h].mode)
        THEN [errno |-> "EBADFD", c |-> c, issued |-> 0]
        ELSE IF ok
        THEN [errno |-> "OK", c |-> TruncateBytes(c, size), issued |-> 1]
        ELSE [errno |-> "EREMOTEIO", c |-> c, issued |-> 1]

FileHandleTruncate(h, size, ok) ==
    LET t == HandleTruncate(h, size, ok)
    IN  /\ backend' = [backend EXCEPT ![fh[h].file] = t.c]
        /\ ret' = Result("Truncate", fh[h].file, h, t.errno, size, << >>)
        /\ UNCHANGED <<terminated, fileHandleMap, fh, wr, rd, tr, locks, xattrs>>

\* FileHandle.Truncate step by step, called as Truncate or from
\* FileHandle.Setattr (op). HandleTruncateEnter: the checks; a call they
\* turn away returns at once; no mutex is taken
HandleTruncateEnter(op, h, size) ==
    IF ~terminated /\ IsWriteMode(fh[h].mode)
    THEN /\ fh[h].call = NoCall
         /\ fh' = [fh EXCEPT ![h].call = [op |-> op, off |-> size, n |-> 0, data |-> << >>]]
         /\ UNCHANGED <<terminated, fileHandleMap, wr, rd, backend, tr, locks, xattrs, ret>>
    ELSE /\ ret' = Result(op, fh[h].file, h, HandleTruncate(h, size, TRUE).errno,
                          0, << >>)
         /\ UNCHANGED <<terminated, fileHandleMap, fh, wr, rd, backend, tr, locks, xattrs>>

\* HandleTruncateCall: handle.fileHandle.Truncate(size) and the return;
\* Setattr reports the size when it returned OK
HandleTruncateCall(h, ok) ==
    LET c == fh[h].call
        t == HandleTruncateUnguarded(h, c.off, ok)
    IN  /\ c.op \in {"Truncate", "Setattr"}
        /\ fh' = [fh EXCEPT ![h].call = NoCall]
        /\ backend' = [backend EXCEPT ![fh[h].file] = t.c]
        /\ ret' = Result(c.op, fh[h].file, h, t.errno,
                         IF c.op = "Truncate" \/ t.errno = "OK" THEN c.off ELSE 0,
                         << >>)
        /\ UNCHANGED <<terminated, fileHandleMap, wr, rd, tr, locks, xattrs>>

(* -------------------------- FileHandle.Release ------------------------ *)
(* Release as the other operations see it while it runs. It takes no lock *)
(* until closeFunc, and each of its loads, calls and stores is a step:    *)
(* reader.Release() with its error test, the store of nil in              *)
(* handle.reader, writer.Release() with its error test, the store of nil  *)
(* in handle.writer, the start of closeFunc, then closeFunc's             *)
(* fileHandleMap.Remove, then its fileHandle.Close(). Between a Release() *)
(* and the store that follows it the field still holds the released       *)
(* pipeline. A handle in closeFunc has st "closing" before the Remove and *)
(* "removed" after it; closeFunc holds handle.mutex, so a closeFunc       *)
(* started meanwhile waits (queued). The FileHandle object keeps its      *)
(* backend handle and its open mode after the close.                      *)

\* Release up to the store in handle.reader: the entry check, the load of
\* handle.reader and, when it is set, reader.Release() (the prefetch is
\* cancelled) and reader.GetError()
ReleaseReader(h) ==
    LET f == fh[h].file
        Return(errno) == ret' = Result("Release", f, h, errno, 0, << >>)
        r1 == [rd[h] EXCEPT !.next = -1, !.released = TRUE]
    IN  /\ fh[h].rel = ""
        /\ IF terminated
           THEN /\ Return("ECONNABORTED")
                /\ UNCHANGED <<terminated, fileHandleMap, fh, wr, rd, backend, tr, locks, xattrs>>
           ELSE IF fh[h].reader = "nil"
           THEN /\ fh' = [fh EXCEPT ![h].rel = "writer"]
                /\ UNCHANGED <<terminated, fileHandleMap, wr, rd, backend, tr, locks, xattrs, ret>>
           ELSE IF r1.err
           THEN /\ Return("EREMOTEIO")
                /\ rd' = [rd EXCEPT ![h] = r1]
                /\ UNCHANGED <<terminated, fileHandleMap, fh, wr, backend, tr, locks, xattrs>>
           ELSE /\ rd' = [rd EXCEPT ![h] = r1]
                /\ fh' = [fh EXCEPT ![h].rel = "reader"]
                /\ UNCHANGED <<terminated, fileHandleMap, wr, backend, tr, locks, xattrs, ret>>

\* Release: handle.reader = nil. The reader object is dropped unless a
\* Read that passed its checks still has to call it
ReleaseReaderStore(h) ==
    /\ fh[h].rel = "reader"
    /\ fh' = [fh EXCEPT ![h].reader = "nil", ![h].rel = "writer"]
    /\ rd' = IF fh[h].call.op = "Read" THEN rd ELSE [rd EXCEPT ![h] = NoReader]
    /\ UNCHANGED <<terminated, fileHandleMap, wr, backend, tr, locks, xattrs, ret>>

\* the handle of h after Release started closeFunc: it runs now, or waits
\* for handle.mutex while another closeFunc of h runs
CloseFuncStarted(x) ==
    IF x.st \in {"closing", "removed"}
    THEN [x EXCEPT !.queued = @ + 1]
    ELSE [x EXCEPT !.st = "closing", !.closing = TRUE]

\* Release: the load of handle.writer and, when it is set,
\* writer.Release() (the buffer and the queue are flushed, the worker is
\* detached) and writer.GetError()
ReleaseWriter(h, ok) ==
    LET f == fh[h].file
        Return(errno) == ret' = Result("Release", f, h, errno, 0, << >>)
        P == WriterFlush(fh[h].writer, [w |-> wr[h], c |-> backend[f]], ok)
        w1 == [P.w EXCEPT !.released = TRUE]
    IN  /\ fh[h].rel = "writer"
        /\ IF fh[h].writer = "nil"
           THEN /\ fh' = [fh EXCEPT ![h].rel = "start"]
                /\ UNCHANGED <<terminated, fileHandleMap, wr, rd, backend, tr, locks, xattrs, ret>>
           ELSE IF w1.err
           THEN /\ Return("EREMOTEIO")
                /\ wr' = [wr EXCEPT ![h] = w1]
                /\ backend' = [backend EXCEPT ![f] = P.c]
                /\ fh' = [fh EXCEPT ![h].rel = ""]
                /\ UNCHANGED <<terminated, fileHandleMap, rd, tr, locks, xattrs>>
           ELSE /\ wr' = [wr EXCEPT ![h] = w1]
                /\ backend' = [backend EXCEPT ![f] = P.c]
                /\ fh' = [fh EXCEPT ![h].rel = "wstore"]
                /\ UNCHANGED <<terminated, fileHandleMap, rd, tr, locks, xattrs, ret>>

\* Release: handle.writer = nil. The writer object is dropped unless a
\* Write, Flush or Fsync that passed its checks still has to call it
ReleaseWriterStore(h) ==
    /\ fh[h].rel = "wstore"
    /\ fh' = [fh EXCEPT ![h].writer = "nil", ![h].rel = "start"]
    /\ wr' = IF fh[h].call.op \in {"Write", "Flush", "Fsync"} THEN wr
             ELSE [wr EXCEPT ![h] = NoWriter]
    /\ UNCHANGED <<terminated, fileHandleMap, rd, backend, tr, locks, xattrs, ret>>

\* Release: the start of closeFunc. For a ReadOnly handle it is started
\* as a goroutine and Release returns OK; otherwise Release runs it and
\* returns when it is done
ReleaseStart(h) ==
    /\ fh[h].rel = "start"
    /\ fh' = [fh EXCEPT ![h] = CloseFuncStarted([@ EXCEPT !.rel = ""])]
    /\ ret' = IF IsReadOnly(fh[h].mode)
              THEN Result("Release", fh[h].file, h, "OK", 0, << >>)
              ELSE ret
    /\ UNCHANGED <<terminated, fileHandleMap, wr, rd, backend, tr, locks, xattrs>>

\* a Release that entered moves on by one step, up to the start of
\* closeFunc
ReleaseStep(h, ok) ==
    \/ ReleaseReaderStore(h)
    \/ ReleaseWriter(h, ok)
    \/ ReleaseWriterStore(h)
    \/ ReleaseStart(h)

\* a closeFunc that goes on to the close and leaves the handle registered
CloseFuncRemoveKeep(h) ==
    /\ fh[h].st = "closing"
    /\ fh' = [fh EXCEPT ![h].st = "removed"]
    /\ UNCHANGED <<terminated, fileHandleMap, wr, rd, backend, tr, locks, xattrs, ret>>

\* closeFunc: handle.fs.fileHandleMap.Remove(handle.fileHandle.GetID())
CloseFuncRemove(h) ==
    /\ fh[h].st = "closing"
    /\ fileHandleMap' = MapRemove(fileHandleMap, h)
    /\ fh' = [fh EXCEPT ![h].st = "removed"]
    /\ UNCHANGED <<terminated, wr, rd, backend, tr, locks, xattrs, ret>>

\* closeFunc: handle.fileHandle.Close(), and handle.mutex passes to a
\* closeFunc that waits; a Release that ran closeFunc itself then returns
\* OK
CloseFuncClose(h) ==
    /\ fh[h].st = "removed"
    /\ fh' = [fh EXCEPT ![h] =
                 IF @.queued > 0
                 THEN [@ EXCEPT !.st = "closing", !.closed = TRUE,
                                !.queued = @ - 1]
                 ELSE [@ EXCEPT !.st = "closed", !.closed = TRUE,
                                !.closing = FALSE]]
    /\ ret' = IF IsReadOnly(fh[h].mode) THEN ret
              ELSE Result("Release", fh[h].file, h, "OK", 0, << >>)
    /\ UNCHANGED <<terminated, fileHandleMap, wr, rd, backend, tr, locks, xattrs>>

(* ---------------------------- File.Truncate --------------------------- *)

\* entry check, file.mutex.Lock(), VPath resolution and Stat; caller is
\* the operation that returns to the kernel (File.Truncate itself, or
\* File.Setattr delegating to it)
TruncateBegin(caller, f, size, outcome) ==
    LET Return(errno) ==
            /\ ret' = Result(caller, f, 0, errno, 0, << >>)
            /\ UNCHANGED <<terminated, fileHandleMap, fh, wr, rd, backend, tr, locks, xattrs>>
    IN  IF terminated THEN Return("ECONNABORTED")
        ELSE /\ tr[f].pc = "idle"
             /\ \A a \in Attrs : tr[f].rx[a] = 0
             /\ IF VPathKind(f) # "remote" THEN Return("EREMOTEIO")
                ELSE IF outcome = "notfound" THEN Return("ENOENT")
                ELSE IF outcome = "fail" THEN Return("EREMOTEIO")
                ELSE /\ tr' = [tr EXCEPT ![f] =
                                [NoTruncate EXCEPT !.pc = "locked", !.caller = caller,
                                                   !.size = size,
                                                   !.statSize = Len(backend[f])]]
                     /\ UNCHANGED <<terminated, fileHandleMap, fh, wr, rd,
                                    backend, locks, xattrs, ret>>

TruncateEnter(f, size, outcome) == TruncateBegin("FileTruncate", f, size, outcome)

\* the write-mode handles File.Truncate finds registered for the path
WriteHandles(f) ==
    {h \in ListByPath(fileHandleMap, f) : IsWriteMode(fh[h].mode)}

\* the truncate by path, issued when no write-mode handle was found
TruncateByPath(f, outcome) ==
    /\ backend' = [backend EXCEPT ![f] =
                    IF outcome = "ok" THEN TruncateBytes(@, tr[f].size) ELSE @]
    /\ tr' = [tr EXCEPT ![f].pc = "ret", ![f].viaPath = 1, ![f].issued = 1,
                        ![f].errno =
                            CASE outcome = "ok" -> "OK"
                              [] outcome = "notfound" -> "ENOENT"
                              [] OTHER -> "EREMOTEIO"]

\* a lookup that issues the truncate by path whatever size Stat reported
TruncateLookupAlways(f, outcome) ==
    /\ tr[f].pc = "locked"
    /\ IF WriteHandles(f) # {}
       THEN /\ \E h \in WriteHandles(f) :
                  tr' = [tr EXCEPT ![f].pc = "found", ![f].called = {h}]
            /\ UNCHANGED backend
       ELSE TruncateByPath(f, outcome)
    /\ UNCHANGED <<terminated, fileHandleMap, fh, wr, rd, locks, xattrs, ret>>

\* File.Truncate's delegation, step by step: ListByPath and the loop up
\* to the first write-mode handle (or the truncate by path when there is
\* none), then the call of that handle's Truncate; file.mutex is held
\* throughout, and neither Release nor FileHandle.Truncate takes it
TruncateLookup(f, outcome) ==
    /\ tr[f].pc = "locked"
    /\ IF WriteHandles(f) # {}
       THEN /\ \E h \in WriteHandles(f) :
                  tr' = [tr EXCEPT ![f].pc = "found", ![f].called = {h}]
            /\ UNCHANGED backend
       ELSE IF tr[f].statSize # tr[f].size
       THEN TruncateByPath(f, outcome)
       ELSE /\ tr' = [tr EXCEPT ![f].pc = "ret", ![f].errno = "OK"]
            /\ UNCHANGED backend
    /\ UNCHANGED <<terminated, fileHandleMap, fh, wr, rd, locks, xattrs, ret>>

\* the call of the found handle's Truncate, which ends the loop
TruncateCall(f, ok) ==
    /\ tr[f].pc = "found"
    /\ \E h \in tr[f].called :
           LET t == HandleTruncate(h, tr[f].size, ok)
           IN  /\ backend' = [backend EXCEPT ![f] = t.c]
               /\ tr' = [tr EXCEPT ![f].pc = "ret", ![f].errno = t.errno,
                                   ![f].issued = t.issued]
    /\ UNCHANGED <<terminated, fileHandleMap, fh, wr, rd, locks, xattrs, ret>>

\* file.mutex.Unlock() and the return to the caller
TruncateReturn(f) ==
    /\ tr[f].pc = "ret"
    /\ ret' = Result(tr[f].caller, f, 0, tr[f].errno,
                      IF tr[f].errno = "OK" THEN tr[f].size ELSE 0, << >>)
    /\ tr' = [tr EXCEPT ![f] = NoTruncate]
    /\ UNCHANGED <<terminated, fileHandleMap, fh, wr, rd, backend, locks, xattrs>>

(* ------------------------- Getattr and Setattr ------------------------ *)

FileGetattr(f, outcome) ==
    LET Return(errno, n) ==
            /\ ret' = Result("FileGetattr", f, 0, errno, n, << >>)
            /\ UNCHANGED <<terminated, fileHandleMap, fh, wr, rd, backend, tr, locks, xattrs>>
    IN  IF terminated THEN Return("ECONNABORTED", 0)
        ELSE /\ tr[f].pc = "idle"
             /\ IF VPathKind(f) # "remote" THEN Return("EREMOTEIO", 0)
                ELSE IF outcome = "notfound" THEN Return("ENOENT", 0)
                ELSE IF outcome = "fail" THEN Return("EREMOTEIO", 0)
                ELSE Return("OK", Len(backend[f]))

\* FileHandle.Getattr is File.Getattr behind one more entry check
FileHandleGetattr(h, outcome) ==
    /\ FileGetattr(fh[h].file, outcome)

\* File.Setattr: only a size is acted on
FileSetattr(f, hasSize, size, outcome) ==
    IF terminated
    THEN /\ ret' = Result("FileSetattr", f, 0, "ECONNABORTED", 0, << >>)
         /\ UNCHANGED <<terminated, fileHandleMap, fh, wr, rd, backend, tr, locks, xattrs>>
    ELSE IF hasSize THEN TruncateBegin("FileSetattr", f, size, outcome)
    ELSE /\ ret' = Result("FileSetattr", f, 0, "OK", 0, << >>)
         /\ UNCHANGED <<terminated, fileHandleMap, fh, wr, rd, backend, tr, locks, xattrs>>

\* a FileHandle.Setattr that reports the size whatever Truncate returned
FileHandleSetattrReportAlways(h, hasSize, size, ok) ==
    LET f == fh[h].file
        t == HandleTruncate(h, size, ok)
    IN  /\ backend' = [backend EXCEPT ![f] = IF hasSize THEN t.c ELSE @]
        /\ ret' = Result("Setattr", f, h,
                         IF terminated THEN "ECONNABORTED"
                         ELSE IF hasSize THEN t.errno ELSE "OK",
                         IF hasSize THEN size ELSE 0, << >>)
        /\ UNCHANGED <<terminated, fileHandleMap, fh, wr, rd, tr, locks, xattrs>>

FileHandleSetattr(h, hasSize, size, ok) ==
    LET f == fh[h].file
        t == HandleTruncate(h, size, ok)
    IN  IF terminated
        THEN /\ ret' = Result("Setattr", f, h, "ECONNABORTED", 0, << >>)
             /\ UNCHANGED <<terminated, fileHandleMap, fh, wr, rd, backend, tr, locks, xattrs>>
        ELSE IF hasSize
        THEN /\ backend' = [backend EXCEPT ![f] = t.c]
             /\ ret' = Result("Setattr", f, h, t.errno,
                              IF t.errno = "OK" THEN size ELSE 0, << >>)
             /\ UNCHANGED <<terminated, fileHandleMap, fh, wr, rd, tr, locks, xattrs>>
        ELSE /\ ret' = Result("Setattr", f, h, "OK", 0, << >>)
             /\ UNCHANGED <<terminated, fileHandleMap, fh, wr, rd, backend, tr, locks, xattrs>>

(* ------------------------- extended attributes ------------------------ *)

IsUnhandledAttr(a) == a = 2

\* the name of attribute a as bytes, with its terminating 0
AttrName(a) == <<a, 0>>

RECURSIVE NamesOf(_, _)
\* the names ListXattr returns, each 0-terminated, in the backend's order
NamesOf(x, S) ==
    IF S = {} THEN << >>
    ELSE LET a == CHOOSE m \in S : \A k \in S : m <= k
         IN  (IF x[a] # NoValue THEN AttrName(a) ELSE << >>) \o NamesOf(x, S \ {a})

\* the checks the xattr operations share before they reach the backend
XattrPath(f, outcome) ==
    IF VPathKind(f) # "remote" THEN "EREMOTEIO"
    ELSE IF outcome = "notfound" THEN "ENOENT"
    ELSE IF outcome = "fail" THEN "EREMOTEIO"
    ELSE "OK"

FileListxattr(f, destLen, outcome) ==
    LET Return(errno, n, data) ==
            /\ ret' = Result("Listxattr", f, 0, errno, n, data)
            /\ UNCHANGED <<terminated, fileHandleMap, fh, wr, rd, backend, tr, locks, xattrs>>
        e == XattrPath(f, outcome)
    IN  IF terminated THEN Return("ECONNABORTED", 0, << >>)
        ELSE /\ tr[f].pc = "idle"
             /\ IF e # "OK" THEN Return(e, 0, << >>)
                ELSE LET names == NamesOf(xattrs[f], Attrs)
                     IN  IF destLen < Len(names)
                         THEN Return("ERANGE", Len(names), << >>)
                         ELSE Return("OK", Len(names), names)

\* a Getxattr that fills a short destination with the head of the value
FileGetxattrTruncating(f, a, destLen, outcome) ==
    LET Return(errno, n, data) ==
            /\ ret' = Result("Getxattr", f, 0, errno, n, data)
            /\ UNCHANGED <<terminated, fileHandleMap, fh, wr, rd, backend, tr, locks, xattrs>>
        e == XattrPath(f, outcome)
    IN  IF terminated THEN Return("ECONNABORTED", 0, << >>)
        ELSE IF IsUnhandledAttr(a) THEN Return("ENODATA", 0, << >>)
        ELSE /\ tr[f].pc = "idle"
             /\ IF e # "OK" THEN Return(e, 0, << >>)
                ELSE IF xattrs[f][a] = NoValue THEN Return("ENODATA", 0, << >>)
                ELSE Return("OK", Min(destLen, Len(xattrs[f][a])),
                            Take(xattrs[f][a], destLen))

FileGetxattr(f, a, destLen, outcome) ==
    LET Return(errno, n, data) ==
            /\ ret' = Result("Getxattr", f, 0, errno, n, data)
            /\ UNCHANGED <<terminated, fileHandleMap, fh, wr, rd, backend, tr, locks, xattrs>>
        e == XattrPath(f, outcome)
    IN  IF terminated THEN Return("ECONNABORTED", 0, << >>)
        ELSE IF IsUnhandledAttr(a) THEN Return("ENODATA", 0, << >>)
        ELSE /\ tr[f].pc = "idle"
             /\ IF e # "OK" THEN Return(e, 0, << >>)
                ELSE IF xattrs[f][a] = NoValue THEN Return("ENODATA", 0, << >>)
                ELSE IF destLen < Len(xattrs[f][a])
                THEN Return("ERANGE", Len(xattrs[f][a]), << >>)
                ELSE Return("OK", Len(xattrs[f][a]), xattrs[f][a])

FileSetxattr(f, a, v, outcome) ==
    LET Return(errno) ==
            /\ ret' = Result("Setxattr", f, 0, errno, 0, << >>)
            /\ UNCHANGED <<terminated, fileHandleMap, fh, wr, rd, backend, tr, locks>>
        e == XattrPath(f, outcome)
    IN  IF terminated THEN Return("ECONNABORTED") /\ UNCHANGED xattrs
        ELSE IF IsUnhandledAttr(a) THEN Return("EINVAL") /\ UNCHANGED xattrs
        ELSE /\ tr[f].pc = "idle"
             /\ IF e # "OK" THEN Return(e) /\ UNCHANGED xattrs
                ELSE /\ Return("OK")
                     /\ xattrs' = [xattrs EXCEPT ![f][a] = v]

\* Removexattr up to the removal: the entry check, file.mutex.RLock(), the
\* path checks and GetXattr; an attribute GetXattr does not find is
\* answered ENODATA. The read lock admits other Removexattr calls
RemovexattrGet(f, a, outcome) ==
    LET Return(errno) ==
            /\ ret' = Result("Removexattr", f, 0, errno, 0, << >>)
            /\ UNCHANGED <<terminated, fileHandleMap, fh, wr, rd, backend, tr, locks, xattrs>>
        e == XattrPath(f, outcome)
    IN  IF terminated THEN Return("ECONNABORTED")
        ELSE /\ tr[f].pc = "idle"
             /\ IF e # "OK" THEN Return(e)
                ELSE IF xattrs[f][a] = NoValue THEN Return("ENODATA")
                ELSE /\ tr[f].rx[a] < MaxReaders
                     /\ tr' = [tr EXCEPT ![f].rx[a] = @ + 1]
                     /\ UNCHANGED <<terminated, fileHandleMap, fh, wr, rd, backend,
                                    locks, xattrs, ret>>

\* a removal that answers OK and leaves the attribute in place
RemovexattrRemoveKeep(f, a, outcome) ==
    /\ tr[f].rx[a] > 0
    /\ tr' = [tr EXCEPT ![f].rx[a] = @ - 1]
    /\ ret' = Result("Removexattr", f, 0,
                     CASE outcome = "ok" -> "OK"
                       [] outcome = "notfound" -> "ENOENT"
                       [] OTHER -> "EREMOTEIO", 0, << >>)
    /\ UNCHANGED <<terminated, fileHandleMap, fh, wr, rd, backend, locks, xattrs>>

\* RemoveXattr, file.mutex.RUnlock() and the return; the backend answers a
\* removal of an attribute another call removed meanwhile as it sees fit
RemovexattrRemove(f, a, outcome) ==
    /\ tr[f].rx[a] > 0
    /\ tr' = [tr EXCEPT ![f].rx[a] = @ - 1]
    /\ xattrs' = [xattrs EXCEPT ![f][a] = IF outcome = "ok" THEN NoValue ELSE @]
    /\ ret' = Result("Removexattr", f, 0,
                     CASE outcome = "ok" -> "OK"
                       [] outcome = "notfound" -> "ENOENT"
                       [] OTHER -> "EREMOTEIO", 0, << >>)
    /\ UNCHANGED <<terminated, fileHandleMap, fh, wr, rd, backend, locks>>

(* ----------------------------- local locks ---------------------------- *)

Intersects(l, start, end) == l.start <= end /\ start <= l.end

\* localFileLockManager.Get(start, end): the records intersecting the range
LockManagerGet(L, start, end) == {l \in L : Intersects(l, start, end)}

\* the id SetLocalLock gives the record it builds (xid.New()): one that no
\* record of the table carries
NewLockID(L) ==
    CHOOSE i \in 1..(Cardinality(L) + 1) : \A l \in L : l.id # i

\* the record SetLocalLock builds from the request
LockRecord(L, lk) ==
    [id |-> NewLockID(L), type |-> lk.type, pid |-> lk.pid,
     start |-> lk.start, end |-> lk.end]

\* a Read/Write request conflicts with an intersecting record unless both
\* are Read
Conflicts(L, lk) ==
    \E l \in LockManagerGet(L, lk.start, lk.end) :
        ~(l.type = F_RDLCK /\ lk.type = F_RDLCK)

\* GetLocalLock that answers with the request whatever the table holds
GetLocalLockEcho(op, h, lk) ==
    LET Return(errno, out) ==
            /\ ret' = Result(op, fh[h].file, h, errno, 0, out)
            /\ UNCHANGED <<terminated, fileHandleMap, fh, wr, rd, backend, tr, locks, xattrs>>
    IN  IF terminated THEN Return("ECONNABORTED", << >>)
        ELSE Return("OK", <<F_UNLCK, lk.start, lk.end, lk.pid>>)

FileHandleGetLocalLock(op, h, lk) ==
    LET found == LockManagerGet(locks[h], lk.start, lk.end)
        Return(errno, out) ==
            /\ ret' = Result(op, fh[h].file, h, errno, 0, out)
            /\ UNCHANGED <<terminated, fileHandleMap, fh, wr, rd, backend, tr, locks, xattrs>>
    IN  IF terminated THEN Return("ECONNABORTED", << >>)
        ELSE IF found # {}
        THEN \E l \in found : Return("OK", <<l.type, l.start, l.end, l.pid>>)
        ELSE Return("OK", <<F_UNLCK, lk.start, lk.end, lk.pid>>)

\* SetLocalLock on one lock table shared by all handles
SetLocalLockShared(op, h, lk) ==
    LET all == UNION {locks[g] : g \in Handles}
        Return(errno) ==
            /\ ret' = Result(op, fh[h].file, h, errno, 0, << >>)
            /\ UNCHANGED <<terminated, fileHandleMap, fh, wr, rd, backend, tr, xattrs>>
    IN  IF terminated THEN Return("ECONNABORTED") /\ UNCHANGED locks
        ELSE IF lk.type = F_UNLCK
        THEN IF LockManagerGet(locks[h], lk.start, lk.end) = {}
             THEN Return("ENOENT") /\ UNCHANGED locks
             ELSE /\ Return("OK")
                  /\ locks' = [locks EXCEPT ![h] =
                                @ \ LockManagerGet(@, lk.start, lk.end)]
        ELSE IF Conflicts(all, lk)
        THEN Return("EAGAIN") /\ UNCHANGED locks
        ELSE /\ Cardinality(locks[h]) < MaxLocks
             /\ Return("OK")
             /\ locks' = [locks EXCEPT ![h] = @ \cup {LockRecord(@, lk)}]

\* SetLocalLock that inserts the record whatever the table holds
SetLocalLockUnchecked(op, h, lk) ==
    LET Return(errno) ==
            /\ ret' = Result(op, fh[h].file, h, errno, 0, << >>)
            /\ UNCHANGED <<terminated, fileHandleMap, fh, wr, rd, backend, tr, xattrs>>
    IN  IF terminated THEN Return("ECONNABORTED") /\ UNCHANGED locks
        ELSE IF lk.type = F_UNLCK
        THEN IF LockManagerGet(locks[h], lk.start, lk.end) = {}
             THEN Return("ENOENT") /\ UNCHANGED locks
             ELSE /\ Return("OK")
                  /\ locks' = [locks EXCEPT ![h] =
                                @ \ LockManagerGet(@, lk.start, lk.end)]
        ELSE /\ Cardinality(locks[h]) < MaxLocks
             /\ Return("OK")
             /\ locks' = [locks EXCEPT ![h] = @ \cup {LockRecord(@, lk)}]

\* SetLocalLock that turns away every request intersecting a record
SetLocalLockExclusive(op, h, lk) ==
    LET Return(errno) ==
            /\ ret' = Result(op, fh[h].file, h, errno, 0, << >>)
            /\ UNCHANGED <<terminated, fileHandleMap, fh, wr, rd, backend, tr, xattrs>>
    IN  IF terminated THEN Return("ECONNABORTED") /\ UNCHANGED locks
        ELSE IF lk.type = F_UNLCK
        THEN IF LockManagerGet(locks[h], lk.start, lk.end) = {}
             THEN Return("ENOENT") /\ UNCHANGED locks
             ELSE /\ Return("OK")
                  /\ locks' = [locks EXCEPT ![h] =
                                @ \ LockManagerGet(@, lk.start, lk.end)]
        ELSE IF LockManagerGet(locks[h], lk.start, lk.end) # {}
        THEN Return("EAGAIN") /\ UNCHANGED locks
        ELSE /\ Cardinality(locks[h]) < MaxLocks
             /\ Return("OK")
             /\ locks' = [locks EXCEPT ![h] = @ \cup {LockRecord(@, lk)}]

\* SetLocalLock whose conflict check looks only at the records of exactly
\* the requested range
SetLocalLockExactRange(op, h, lk) ==
    LET same == {l \in locks[h] : l.start = lk.start /\ l.end = lk.end}
        Return(errno) ==
            /\ ret' = Result(op, fh[h].file, h, errno, 0, << >>)
            /\ UNCHANGED <<terminated, fileHandleMap, fh, wr, rd, backend, tr, xattrs>>
    IN  IF terminated THEN Return("ECONNABORTED") /\ UNCHANGED locks
        ELSE IF lk.type = F_UNLCK
        THEN IF LockManagerGet(locks[h], lk.start, lk.end) = {}
             THEN Return("ENOENT") /\ UNCHANGED locks
             ELSE /\ Return("OK")
                  /\ locks' = [locks EXCEPT ![h] =
                                @ \ LockManagerGet(@, lk.start, lk.end)]
        ELSE IF \E l \in same : ~(l.type = F_RDLCK /\ lk.type = F_RDLCK)
        THEN Return("EAGAIN") /\ UNCHANGED locks
        ELSE /\ Cardinality(locks[h]) < MaxLocks
             /\ Return("OK")
             /\ locks' = [locks EXCEPT ![h] = @ \cup {LockRecord(@, lk)}]

FileHandleSetLocalLock(op, h, lk) ==
    LET Return(errno) ==
            /\ ret' = Result(op, fh[h].file, h, errno, 0, << >>)
            /\ UNCHANGED <<terminated, fileHandleMap, fh, wr, rd, backend, tr, xattrs>>
    IN  IF terminated THEN Return("ECONNABORTED") /\ UNCHANGED locks
        ELSE IF lk.type = F_UNLCK
        THEN IF LockManagerGet(locks[h], lk.start, lk.end) = {}
             THEN Return("ENOENT") /\ UNCHANGED locks
             ELSE /\ Return("OK")
                  /\ locks' = [locks EXCEPT ![h] =
                                @ \ LockManagerGet(@, lk.start, lk.end)]
        ELSE IF Conflicts(locks[h], lk)
        THEN Return("EAGAIN") /\ UNCHANGED locks
        ELSE /\ Cardinality(locks[h]) < MaxLocks
             /\ Return("OK")
             /\ locks' = [locks EXCEPT ![h] = @ \cup {LockRecord(@, lk)}]

(* SetLocalLock of a Read or Write request beside another call of the     *)
(* handle. SetLocalLock takes no lock of its own, and the lock manager's  *)
(* Lock scans the table and then inserts: the scan and the insert are two *)
(* steps, between which another call's scan or insert may run. A Lock     *)
(* that is atomic is the case of the insert following its scan at once.   *)

\* a scan that finds no conflict whatever the table holds
SetLocalLockScanUnchecked(op, h, lk) ==
    /\ lk.type # F_UNLCK
    /\ IF terminated
       THEN /\ ret' = Result(op, fh[h].file, h, "ECONNABORTED", 0, << >>)
            /\ UNCHANGED <<terminated, fileHandleMap, fh, wr, rd, backend, tr, locks, xattrs>>
       ELSE /\ fh' = [fh EXCEPT ![h].locking = @ \cup {lk}]
            /\ UNCHANGED <<terminated, fileHandleMap, wr, rd, backend, tr, locks, xattrs, ret>>

\* SetLocalLock up to the insert: the entry check, and Lock's scan of the
\* table, which returns EAGAIN on a conflict
SetLocalLockScan(op, h, lk) ==
    /\ lk.type # F_UNLCK
    /\ IF terminated
       THEN /\ ret' = Result(op, fh[h].file, h, "ECONNABORTED", 0, << >>)
            /\ UNCHANGED <<terminated, fileHandleMap, fh, wr, rd, backend, tr, locks, xattrs>>
       ELSE IF Conflicts(locks[h], lk)
       THEN /\ ret' = Result(op, fh[h].file, h, "EAGAIN", 0, << >>)
            /\ UNCHANGED <<terminated, fileHandleMap, fh, wr, rd, backend, tr, locks, xattrs>>
       ELSE /\ fh' = [fh EXCEPT ![h].locking = @ \cup {lk}]
            /\ UNCHANGED <<terminated, fileHandleMap, wr, rd, backend, tr, locks, xattrs, ret>>

\* Lock's insert of the record, and the return
SetLocalLockInsert(op, h, lk) ==
    /\ lk \in fh[h].locking
    /\ Cardinality(locks[h]) < MaxLocks
    /\ locks' = [locks EXCEPT ![h] = @ \cup {LockRecord(@, lk)}]
    /\ fh' = [fh EXCEPT ![h].locking = @ \ {lk}]
    /\ ret' = Result(op, fh[h].file, h, "OK", 0, << >>)
    /\ UNCHANGED <<terminated, fileHandleMap, wr, rd, backend, tr, xattrs>>

\* SetLocalLockW that takes the lock when nothing conflicts
SetLocalLockWAcquire(op, h, lk) ==
    LET free == lk.type # F_UNLCK /\ ~Conflicts(locks[h], lk)
                    /\ Cardinality(locks[h]) < MaxLocks
    IN  /\ ret' = Result(op, fh[h].file, h,
                         IF terminated THEN "ECONNABORTED"
                         ELSE IF free THEN "OK" ELSE "ENOTSUP", 0, << >>)
        /\ locks' = IF ~terminated /\ free
                    THEN [locks EXCEPT ![h] = @ \cup {LockRecord(@, lk)}]
                    ELSE locks
        /\ UNCHANGED <<terminated, fileHandleMap, fh, wr, rd, backend, tr, xattrs>>

FileHandleSetLocalLockW(op, h, lk) ==
    /\ ret' = Result(op, fh[h].file, h,
                     IF terminated THEN "ECONNABORTED" ELSE "ENOTSUP", 0, << >>)
    /\ UNCHANGED <<terminated, fileHandleMap, fh, wr, rd, backend, tr, locks, xattrs>>

\* FileHandle.Getlk -> File.Getlk -> FileHandle.GetLocalLock, and likewise
\* for Setlk and Setlkw: each passes the same entry check
FileHandleGetlk(h, lk) == FileHandleGetLocalLock("Getlk", h, lk)
FileHandleSetlk(h, lk) == FileHandleSetLocalLock("Setlk", h, lk)
FileHandleSetlkw(h, lk) == FileHandleSetLocalLockW("Setlkw", h, lk)

(* ----------------------------- termination ---------------------------- *)

\* the shutdown path sets fs.terminated
Terminate ==
    /\ ~terminated
    /\ terminated' = TRUE
    /\ UNCHANGED <<fileHandleMap, fh, wr, rd, backend, tr, locks, xattrs, ret>>

(* ====================================================================== *)
(* Spec: the shutdown path against every operation of File and            *)
(* FileHandle. Before the flag is set the kernel opens one file, writes   *)
(* to it and releases it, while the upload worker and the deferred close  *)
(* run; once the flag is set the kernel invokes every operation.          *)
(* ====================================================================== *)

Outcomes == {"ok", "notfound", "fail"}

\* the lock requests tried
LockReqs == {[type |-> t, pid |-> 1, start |-> 0, end |-> 0] :
                t \in {F_RDLCK, F_WRLCK, F_UNLCK}}

Init == InitModel /\ hist = NoHist

\* the history counts the invocation (modulo 2)
Called == hist' = [hist EXCEPT !.tick = 1 - @]

SetupOpen ==
    /\ UNCHANGED hist
    /\ \E f \in RemoteFiles, flags \in {0, O_WRONLY, O_RDWR} :
           /\ ~terminated
           /\ \A h \in Handles : fh[h].st = "unused"
           /\ FileOpen(f, flags, "ok", TRUE)
SetupWrite ==
    /\ UNCHANGED hist
    /\ \E h \in Handles :
           ~terminated /\ Live(h) /\ WriteEnter(h, <<1>>, 0)
SetupRead ==
    /\ UNCHANGED hist
    /\ \E h \in Handles : ~terminated /\ Live(h) /\ ReadEnter(h, 1, 0)
\* a call that passed its checks before the shutdown reaches its pipeline
SetupReadCall ==
    /\ UNCHANGED hist
    /\ \E h \in Handles, ok \in BOOLEAN : ReadCall(h, ok, fh[h].reader)
SetupWriteCall ==
    /\ UNCHANGED hist
    /\ \E h \in Handles, ok \in BOOLEAN : WriteCall(h, ok, fh[h].writer)
SetupSetlk ==
    /\ UNCHANGED hist
    /\ \E h \in Handles :
           /\ ~terminated
           /\ Live(h)
           /\ FileHandleSetlk(h, [type |-> F_WRLCK, pid |-> 1, start |-> 0, end |-> 0])
SetupRelease ==
    /\ UNCHANGED hist
    /\ \E h \in Handles :
           ~terminated /\ Live(h) /\ Quiet(h) /\ ReleaseReader(h)
NextOpen ==
    /\ terminated
    /\ Called
    /\ \E f \in Files, flags \in {0, O_WRONLY}, o \in Outcomes, c \in BOOLEAN :
           FileOpen(f, flags, o, c)
NextRead ==
    /\ terminated
    /\ Called
    /\ \E h \in Handles : Live(h) /\ ReadEnter(h, 1, 0)
NextWrite ==
    /\ terminated
    /\ Called
    /\ \E h \in Handles : Live(h) /\ WriteEnter(h, <<1>>, 0)
NextFlush ==
    /\ terminated
    /\ Called
    /\ \E h \in Handles : Live(h) /\ FlushEnter("Flush", h)
NextFsync ==
    /\ terminated
    /\ Called
    /\ \E h \in Handles : Live(h) /\ FlushEnter("Fsync", h)
NextHandleTruncate ==
    /\ terminated
    /\ Called
    /\ \E h \in Handles, ok \in BOOLEAN : Live(h) /\ FileHandleTruncate(h, 0, ok)
NextRelease ==
    /\ terminated
    /\ Called
    /\ \E h \in Handles : Live(h) /\ ReleaseReader(h)
NextTruncateEnter ==
    /\ terminated
    /\ Called
    /\ \E f \in Files, o \in Outcomes : TruncateEnter(f, 0, o)
NextGetattr ==
    /\ terminated
    /\ Called
    /\ \E f \in Files, o \in Outcomes : FileGetattr(f, o)
NextHandleGetattr ==
    /\ terminated
    /\ Called
    /\ \E h \in Handles, o \in Outcomes : Live(h) /\ FileHandleGetattr(h, o)
NextSetattr ==
    /\ terminated
    /\ Called
    /\ \E f \in Files, b \in BOOLEAN, o \in Outcomes : FileSetattr(f, b, 0, o)
NextHandleSetattr ==
    /\ terminated
    /\ Called
    /\ \E h \in Handles, b \in BOOLEAN, ok \in BOOLEAN :
           Live(h) /\ FileHandleSetattr(h, b, 0, ok)
NextListxattr ==
    /\ terminated
    /\ Called
    /\ \E f \in Files, o \in Outcomes : FileListxattr(f, 2, o)
NextGetxattr ==
    /\ terminated
    /\ Called
    /\ \E f \in Files, a \in Attrs, o \in Outcomes : FileGetxattr(f, a, 1, o)
NextSetxattr ==
    /\ terminated
    /\ Called
    /\ \E f \in Files, a \in Attrs, o \in Outcomes : FileSetxattr(f, a, <<1>>, o)
NextRemovexattr ==
    /\ terminated
    /\ Called
    /\ \E f \in Files, a \in Attrs, o \in Outcomes : RemovexattrGet(f, a, o)
NextGetlk ==
    /\ terminated
    /\ Called
    /\ \E h \in Handles, lk \in LockReqs : Live(h) /\ FileHandleGetlk(h, lk)
NextSetlk ==
    /\ terminated
    /\ Called
    /\ \E h \in Handles, lk \in LockReqs : Live(h) /\ FileHandleSetlk(h, lk)
NextSetlkw ==
    /\ terminated
    /\ Called
    /\ \E h \in Handles, lk \in LockReqs : Live(h) /\ FileHandleSetlkw(h, lk)
NextGetLocalLock ==
    /\ terminated
    /\ Called
    /\ \E h \in Handles, lk \in LockReqs :
           Live(h) /\ FileHandleGetLocalLock("GetLocalLock", h, lk)
NextSetLocalLock ==
    /\ terminated
    /\ Called
    /\ \E h \in Handles, lk \in LockReqs :
           Live(h) /\ FileHandleSetLocalLock("SetLocalLock", h, lk)
NextSetLocalLockW ==
    /\ terminated
    /\ Called
    /\ \E h \in Handles, lk \in LockReqs :
           Live(h) /\ FileHandleSetLocalLockW("SetLocalLockW", h, lk)
NextWorker ==
    /\ UNCHANGED hist
    /\ \E h \in Handles, ok \in BOOLEAN : WriterWorker(h, ok)
NextReleaseStep ==
    /\ UNCHANGED hist
    /\ \E h \in Handles : ReleaseStep(h, TRUE)
NextCloseRemove ==
    /\ UNCHANGED hist
    /\ \E h \in Handles : CloseFuncRemove(h)
NextCloseClose ==
    /\ UNCHANGED hist
    /\ \E h \in Handles : CloseFuncClose(h)
NextPrefetch ==
    /\ UNCHANGED hist
    /\ \E h \in Handles, ok \in BOOLEAN : Prefetch(h, ok)

\* what the kernel does before the shutdown
Setup ==
    \/ SetupOpen
    \/ SetupRead
    \/ SetupWrite
    \/ SetupReadCall
    \/ SetupWriteCall
    \/ SetupSetlk
    \/ SetupRelease

\* an operation is invoked
Invoke ==
    \/ NextOpen
    \/ NextRead
    \/ NextWrite
    \/ NextFlush
    \/ NextFsync
    \/ NextHandleTruncate
    \/ NextRelease
    \/ NextTruncateEnter
    \/ NextGetattr
    \/ NextHandleGetattr
    \/ NextSetattr
    \/ NextHandleSetattr
    \/ NextListxattr
    \/ NextGetxattr
    \/ NextSetxattr
    \/ NextRemovexattr
    \/ NextGetlk
    \/ NextSetlk
    \/ NextSetlkw
    \/ NextGetLocalLock
    \/ NextSetLocalLock
    \/ NextSetLocalLockW

\* a task in the background moves on
Background ==
    \/ NextWorker
    \/ NextPrefetch
    \/ NextReleaseStep
    \/ NextCloseRemove
    \/ NextCloseClose

Next ==
    \/ Setup
    \/ Invoke
    \/ Background
    \/ Terminate /\ UNCHANGED hist

Spec == Init /\ [][Next]_vars


(* ------------------------------ C1 ------------------------------------ *)

\* the state an operation must not touch once the flag is set
Guarded == <<fileHandleMap, fh, locks, wr, rd, backend, tr, xattrs>>

\* C1: once the termination flag is set, every File and FileHandle
\* operation invoked afterwards returns ECONNABORTED, and the handle
\* registry, the lock tables, the reader and writer pipelines and the
\* backend are left exactly as they were before the call.
C1_TerminatedAborts ==
    [][(terminated /\ hist'.tick # hist.tick) =>
          (ret'.errno = "ECONNABORTED" /\ UNCHANGED Guarded)]_vars

\* an operation was turned away after the shutdown while its handle was
\* registered, held a lock and had accepted bytes waiting in its pipeline
C1_Witness ==
    /\ terminated
    /\ ret.errno = "ECONNABORTED"
    /\ ret.op \in {"Release", "Flush", "Truncate", "Write"}
    /\ ret.h \in fileHandleMap.ids
    /\ locks[ret.h] # {}
    /\ wr[ret.h].buf.data # << >>
    /\ wr[ret.h].queue # << >>
    /\ backend[1] # << >>


(* ====================================================================== *)
(* SpecLife: the life of handles, from Open to Release. The kernel opens  *)
(* the two remote files in every open mode while other handles are open,  *)
(* reads and writes them and releases them; the transfers of the prefetch *)
(* and of the upload worker and the flush Release asks for may fail, and  *)
(* the shutdown path may set the termination flag.                        *)
(* ====================================================================== *)

\* one flag word for each open mode
ModeFlags ==
    {0, O_RDWR, O_WRONLY, O_WRONLY + O_TRUNC, O_WRONLY + O_APPEND}

\* the handles open now: live, or released with the close still to run
OpenHandles == {h \in Handles : fh[h].st = "live" \/ fh[h].closing}

\* the kernel has one request in flight at a time: no call is between its
\* checks and its pipeline, and no Release is on its way to its return
LifeQuiet ==
    \A g \in Handles :
        /\ Quiet(g)
        /\ fh[g].rel = ""
        /\ fh[g].st \in {"closing", "removed"} => IsReadOnly(fh[g].mode)

\* the kernel keeps at most two handles open at a time
LifeOpen ==
    /\ UNCHANGED hist
    /\ LifeQuiet
    /\ \A a, b \in OpenHandles : a = b
    /\ \E f \in RemoteFiles, flags \in ModeFlags :
           FileOpen(f, flags, "ok", TRUE)
LifeRead ==
    /\ UNCHANGED hist
    /\ LifeQuiet
    /\ \E h \in Handles : Live(h) /\ ReadEnter(h, 1, 0)
LifeReadCall ==
    /\ UNCHANGED hist
    /\ \E h \in Handles : ReadCall(h, TRUE, fh[h].reader)
LifePrefetch ==
    /\ UNCHANGED hist
    /\ \E h \in Handles, ok \in BOOLEAN : Prefetch(h, ok)
LifeWrite ==
    /\ UNCHANGED hist
    /\ LifeQuiet
    /\ \E h \in Handles : Live(h) /\ WriteEnter(h, <<1>>, 0)
LifeWriteCall ==
    /\ UNCHANGED hist
    /\ \E h \in Handles : WriteCall(h, TRUE, fh[h].writer)
LifeWorker ==
    /\ UNCHANGED hist
    /\ \E h \in Handles, ok \in BOOLEAN : WriterWorker(h, ok)
\* the kernel releases a handle once its requests are answered
LifeRelease ==
    /\ UNCHANGED hist
    /\ LifeQuiet
    /\ \E h \in Handles : Live(h) /\ ReleaseReader(h)
LifeReleaseStep ==
    /\ UNCHANGED hist
    /\ \E h \in Handles, ok \in BOOLEAN : ReleaseStep(h, ok)
LifeCloseRemove ==
    /\ UNCHANGED hist
    /\ \E h \in Handles : CloseFuncRemove(h)
LifeCloseClose ==
    /\ UNCHANGED hist
    /\ \E h \in Handles : CloseFuncClose(h)
\* the shutdown path sets the flag between two requests of the kernel
LifeTerminate ==
    /\ UNCHANGED hist
    /\ LifeQuiet
    /\ Terminate

NextLife ==
    \/ LifeOpen
    \/ LifeRead
    \/ LifeReadCall
    \/ LifePrefetch
    \/ LifeWrite
    \/ LifeWriteCall
    \/ LifeWorker
    \/ LifeRelease
    \/ LifeReleaseStep
    \/ LifeCloseRemove
    \/ LifeCloseClose
    \/ LifeTerminate

SpecLife == Init /\ [][NextLife]_vars


(* ------------------------------ C2 ------------------------------------ *)

\* handle h has an entry in the registry, in either index
Registered(h) ==
    \/ h \in fileHandleMap.ids
    \/ \E f \in RemoteFiles : h \in ListByPath(fileHandleMap, f)

\* C2: at the moment Release returns, for a handle of any open mode, the
\* registry holds no entry for the handle's id in either index.
C2_ReleasedUnregistered ==
    ret.op = "Release" => ~Registered(ret.h)


(* ====================================================================== *)
(* SpecWrite: one handle opened for writing on file 1, with the async     *)
(* writer (O_WRONLY) or the sync writer (O_RDWR). The kernel writes one   *)
(* byte at a time at every offset, flushes and releases the handle while  *)
(* the upload worker runs; backend writes may fail. The history keeps the *)
(* object the accepted writes would have produced had each been applied   *)
(* to the backend at once (want), and the accepted bytes still on their   *)
(* way to the backend (acc).                                              *)
(* ====================================================================== *)

\* the bytes of a write or of a task, each with its offset, in order
TaskBytes(t) == [i \in 1..Len(t.data) |-> <<t.off + i - 1, t.data[i]>>]

RECURSIVE FlattenTasks(_)
FlattenTasks(q) ==
    IF q = << >> THEN << >> ELSE TaskBytes(Head(q)) \o FlattenTasks(Tail(q))

\* the accepted bytes a writer still holds: the queue, then the buffer
PendingOf(w) == FlattenTasks(w.queue) \o TaskBytes(w.buf)

\* the last n elements of s
Suffix(s, n) == IF n >= Len(s) THEN s ELSE SubSeq(s, Len(s) - n + 1, Len(s))

\* the history after Open returned
ObserveOpen ==
    hist' = [hist EXCEPT
        !.want = IF ret'.errno = "OK" THEN backend'[ret'.f] ELSE @]

\* the history after a Write of data at off returned on h
ObserveWrite(h, off, data) ==
    LET took == ret'.errno = "OK"
        new  == IF took THEN TaskBytes([off |-> off, data |-> data]) ELSE << >>
    IN  hist' = [hist EXCEPT
            !.want = IF took THEN WriteBytes(@, off, data) ELSE @,
            !.acc = Suffix(@ \o new, Len(PendingOf(wr'[h])))]

\* the history after the pipeline of h moved accepted bytes on
ObserveUpload(h) ==
    hist' = [hist EXCEPT !.acc = Suffix(@, Len(PendingOf(wr'[h])))]

WriteOpen ==
    \E flags \in {O_WRONLY, O_RDWR} :
        /\ \A h \in Handles : fh[h].st = "unused"
        /\ FileOpen(1, flags, "ok", TRUE)
        /\ ObserveOpen
\* a call that passed its checks returns when it has called the pipeline
WriteWrite ==
    \E h \in Handles, b \in Bytes, off \in 0..(MaxSize - 2) :
        /\ Live(h)
        /\ WriteEnter(h, <<b>>, off)
        /\ IF Quiet(h)' THEN ObserveWrite(h, off, <<b>>) ELSE UNCHANGED hist
WriteWriteCall ==
    \E h \in Handles, ok \in BOOLEAN :
        /\ WriteCall(h, ok, fh[h].writer)
        /\ ObserveWrite(h, fh[h].call.off, fh[h].call.data)
WriteWorker ==
    \E h \in Handles, ok \in BOOLEAN : WriterWorker(h, ok) /\ ObserveUpload(h)
WriteFlush ==
    \E h \in Handles :
        Live(h) /\ FlushEnter("Flush", h) /\ UNCHANGED hist
WriteFsync ==
    \E h \in Handles :
        Live(h) /\ FlushEnter("Fsync", h) /\ UNCHANGED hist
WriteFlushCall ==
    \E h \in Handles, ok \in BOOLEAN :
        FlushCall(h, ok, fh[h].writer) /\ ObserveUpload(h)
\* the kernel releases a handle once its requests are answered
WriteRelease ==
    \E h \in Handles :
        Live(h) /\ Quiet(h) /\ ReleaseReader(h) /\ UNCHANGED hist
WriteReleaseStep ==
    \E h \in Handles, ok \in BOOLEAN : ReleaseStep(h, ok) /\ ObserveUpload(h)

NextWriteSpec ==
    \/ WriteOpen
    \/ WriteWrite
    \/ WriteWriteCall
    \/ WriteWorker
    \/ WriteFlush
    \/ WriteFsync
    \/ WriteFlushCall
    \/ WriteRelease
    \/ WriteReleaseStep
    \/ NextCloseRemove
    \/ NextCloseClose

SpecWrite == Init /\ [][NextWriteSpec]_vars


(* ------------------------------ C3 ------------------------------------ *)

\* C3: for a write-mode handle, once a Flush or Fsync that follows
\* successful writes returns OK, no accepted write remains in the write
\* buffer or in the queue, and the backend object is the one the accepted
\* writes produce when applied in order: each byte a write covered is the
\* byte of the last write that covered it.
C3_FlushedWrites ==
    (ret.op \in {"Flush", "Fsync"} /\ ret.errno = "OK" /\ IsWriteMode(fh[ret.h].mode)) =>
        /\ wr[ret.h].buf = NoBuf
        /\ wr[ret.h].queue = << >>
        /\ backend[ret.f] = hist.want

\* a Flush of the async writer returned OK after writes that overwrote
\* one another: the later byte is the one the backend holds
C3_Witness ==
    /\ ret.op = "Flush"
    /\ ret.errno = "OK"
    /\ fh[ret.h].writer = "async"
    /\ hist.want = <<1, 2>>
    /\ backend[ret.f] = <<1, 2>>

(* ------------------------------ C4 ------------------------------------ *)

\* C4: the writes of one handle reach the backend in the order Write
\* accepted them: the bytes the pipeline still holds are at all times the
\* most recently accepted ones, in the order of their acceptance, so that
\* whatever was accepted earlier was written to the backend earlier
\* (a pipeline that failed writes nothing more to the backend).
C4_WriteOrder ==
    \A h \in Handles :
        (Live(h) /\ ~wr[h].err) => PendingOf(wr[h]) = hist.acc

\* three accepted writes wait in the pipeline while the worker has taken
\* none of them: two uploads of different bytes in the queue, in the order
\* of their acceptance, and the latest write in the buffer
C4_Witness ==
    \E h \in Handles :
        /\ Live(h)
        /\ ~wr[h].err
        /\ Len(wr[h].queue) = 2
        /\ wr[h].queue[1].data # wr[h].queue[2].data
        /\ wr[h].buf.data # << >>
        /\ PendingOf(wr[h]) = hist.acc
        /\ Len(hist.acc) = 3
        /\ ret.op = "Write"
        /\ ret.errno = "OK"


(* ====================================================================== *)
(* SpecSticky: one handle on file 1, opened WriteOnly or ReadWrite, with  *)
(* backend calls that may fail. The kernel reads, writes, flushes, syncs  *)
(* and truncates through the handle. The history keeps the handles that   *)
(* returned a pipeline error in an operation before the last one (stuck). *)
(* ====================================================================== *)

\* the operations that go through a reader or writer pipeline
PipelineOps == {"Read", "Write", "Flush", "Fsync"}

\* the history when the next operation returns: the result before it is
\* now an earlier one
ObserveSticky ==
    hist' = [hist EXCEPT
        !.stuck = IF ret.errno = "EREMOTEIO" /\ ret.op \in PipelineOps
                  THEN @ \cup {ret.h} ELSE @]

StickyOpen ==
    \E flags \in {O_WRONLY, O_RDWR} :
        /\ \A h \in Handles : fh[h].st = "unused"
        /\ FileOpen(1, flags, "ok", TRUE)
        /\ ObserveSticky
\* the history moves when an operation returns: at once when its checks
\* turn it away, else when its call of the pipeline is done
StickyRead ==
    \E h \in Handles :
        /\ Live(h)
        /\ ReadEnter(h, 1, 0)
        /\ IF Quiet(h)' THEN ObserveSticky ELSE UNCHANGED hist
StickyReadCall ==
    \E h \in Handles, ok \in BOOLEAN :
        ReadCall(h, ok, fh[h].reader) /\ ObserveSticky
StickyWrite ==
    \E h \in Handles :
        /\ Live(h)
        /\ WriteEnter(h, <<1>>, 0)
        /\ IF Quiet(h)' THEN ObserveSticky ELSE UNCHANGED hist
StickyWriteCall ==
    \E h \in Handles, ok \in BOOLEAN :
        WriteCall(h, ok, fh[h].writer) /\ ObserveSticky
StickyWorker ==
    \E h \in Handles, ok \in BOOLEAN : WriterWorker(h, ok) /\ UNCHANGED hist
StickyFlush ==
    \E h \in Handles :
        /\ Live(h)
        /\ FlushEnter("Flush", h)
        /\ IF Quiet(h)' THEN ObserveSticky ELSE UNCHANGED hist
StickyFsync ==
    \E h \in Handles :
        /\ Live(h)
        /\ FlushEnter("Fsync", h)
        /\ IF Quiet(h)' THEN ObserveSticky ELSE UNCHANGED hist
StickyFlushCall ==
    \E h \in Handles, ok \in BOOLEAN :
        FlushCall(h, ok, fh[h].writer) /\ ObserveSticky
StickyTruncate ==
    \E h \in Handles, ok \in BOOLEAN :
        Live(h) /\ Quiet(h) /\ FileHandleTruncate(h, 1, ok) /\ ObserveSticky
\* the kernel releases a handle once its requests are answered
StickyRelease ==
    \E h \in Handles :
        /\ Live(h)
        /\ Quiet(h)
        /\ ReleaseReader(h)
        /\ IF Live(h)' THEN ObserveSticky ELSE UNCHANGED hist
StickyReleaseStep ==
    \E h \in Handles, ok \in BOOLEAN :
        /\ ReleaseStep(h, ok)
        /\ IF Live(h)' THEN ObserveSticky ELSE UNCHANGED hist
StickyCloseRemove ==
    \E h \in Handles : CloseFuncRemove(h) /\ UNCHANGED hist
StickyCloseClose ==
    \E h \in Handles : CloseFuncClose(h) /\ ObserveSticky

NextSticky ==
    \/ StickyOpen
    \/ StickyRead
    \/ StickyReadCall
    \/ StickyWrite
    \/ StickyWriteCall
    \/ StickyWorker
    \/ StickyFlush
    \/ StickyFsync
    \/ StickyFlushCall
    \/ StickyTruncate
    \/ StickyRelease
    \/ StickyReleaseStep
    \/ StickyCloseRemove
    \/ StickyCloseClose

SpecSticky == Init /\ [][NextSticky]_vars

(* ------------------------------ C5 ------------------------------------ *)

\* C5: pipeline errors are sticky per handle: once an operation on handle
\* h returned a pipeline error, every later Read, Write, Truncate, Flush
\* and Fsync on h fails with that error too, until h is released; none of
\* them returns OK.
C5_StickyError ==
    (ret.h \in hist.stuck /\ ret.op \in PipelineOps \cup {"Truncate"}) =>
        ret.errno = "EREMOTEIO"


(* ====================================================================== *)
(* SpecTrunc: File.Truncate on file 1 against one handle opened on it for *)
(* writing (WriteOnly or ReadWrite). The kernel writes one byte at the    *)
(* end of the largest object, flushes, releases, and truncates the path   *)
(* to a shorter size, in any interleaving with the steps of File.Truncate *)
(* and of the upload worker. The history keeps the run "truncate, flush,  *)
(* release" of a handle that had unflushed bytes beyond the new size      *)
(* (tg), and the size of the object at the moment File.Truncate returned  *)
(* (atRet).                                                               *)
(* ====================================================================== *)

\* one past the last offset the accepted bytes a writer still holds reach
PendingExtent(w) ==
    LET ends == {t.off + Len(t.data) :
                    t \in {w.queue[i] : i \in DOMAIN w.queue} \cup {w.buf}}
    IN  IF w.queue = << >> /\ w.buf.data = << >> THEN 0
        ELSE CHOOSE m \in ends : \A e \in ends : e <= m

\* the handles that hold unflushed bytes beyond size s of file f
Overhanging(f, s) ==
    {h \in Handles : /\ Live(h)
                     /\ fh[h].file = f
                     /\ IsWriteMode(fh[h].mode)
                     /\ PendingExtent(wr[h]) > s}

NoTarget == NoHist.tg

TruncOpen ==
    \E flags \in {O_WRONLY, O_RDWR} :
        /\ \A h \in Handles : fh[h].st = "unused"
        /\ FileOpen(1, flags, "ok", TRUE)
        /\ UNCHANGED hist
TruncWrite ==
    \E h \in Handles :
        /\ Live(h)
        /\ WriteEnter(h, <<1>>, MaxSize - 1)
        /\ hist' = [hist EXCEPT !.tg = NoTarget]
TruncWriteCall ==
    \E h \in Handles :
        /\ WriteCall(h, TRUE, fh[h].writer)
        /\ hist' = [hist EXCEPT !.tg = NoTarget]
TruncWorker ==
    \E h \in Handles : WriterWorker(h, TRUE) /\ UNCHANGED hist
TruncFlush ==
    \E h \in Handles :
        Live(h) /\ FlushEnter("Flush", h) /\ UNCHANGED hist
TruncFlushCall ==
    \E h \in Handles :
        /\ FlushCall(h, TRUE, fh[h].writer)
        /\ hist' = [hist EXCEPT
               !.tg = IF @.h = h /\ @.phase = 1 /\ ret'.errno = "OK"
                      THEN [@ EXCEPT !.phase = 2] ELSE @]
\* the kernel releases a handle once its requests are answered
TruncRelease ==
    \E h \in Handles :
        /\ Live(h)
        /\ Quiet(h)
        /\ ReleaseReader(h)
        /\ hist' = [hist EXCEPT
               !.tg = IF @.h = h /\ @.phase # 2 THEN NoTarget ELSE @]
TruncReleaseStep ==
    \E h \in Handles : ReleaseStep(h, TRUE) /\ UNCHANGED hist
TruncCloseRemove ==
    \E h \in Handles : CloseFuncRemove(h) /\ UNCHANGED hist
TruncCloseClose ==
    \E h \in Handles :
        /\ CloseFuncClose(h)
        /\ hist' = [hist EXCEPT
               !.tg = IF @.h = h /\ @.phase = 2 /\ ret'.errno = "OK"
                      THEN [@ EXCEPT !.phase = 3] ELSE @]
TruncEnter ==
    \E size \in {MaxSize - 2, MaxSize - 1} :
        /\ TruncateEnter(1, size, "ok")
        /\ hist' = [hist EXCEPT !.tg = NoTarget]
TruncLookup ==
    TruncateLookup(1, "ok") /\ UNCHANGED hist
TruncCall ==
    TruncateCall(1, TRUE) /\ UNCHANGED hist
\* the run starts when File.Truncate returns OK to a kernel that has no
\* request waiting on the handle
TruncReturn ==
    /\ TruncateReturn(1)
    /\ hist' = [hist EXCEPT
           !.atRet = [len |-> Len(backend[1]), viaHandle |-> tr[1].called # {}],
           !.tg = IF /\ tr[1].errno = "OK"
                     /\ \E h \in Overhanging(1, tr[1].size) : Quiet(h)
                  THEN [h |-> CHOOSE h \in Overhanging(1, tr[1].size) : Quiet(h),
                        size |-> tr[1].size, phase |-> 1]
                  ELSE NoTarget]

NextTrunc ==
    \/ TruncOpen
    \/ TruncWrite
    \/ TruncWriteCall
    \/ TruncWorker
    \/ TruncFlush
    \/ TruncFlushCall
    \/ TruncRelease
    \/ TruncReleaseStep
    \/ TruncCloseRemove
    \/ TruncCloseClose
    \/ TruncEnter
    \/ TruncLookup
    \/ TruncCall
    \/ TruncReturn

SpecTrunc == Init /\ [][NextTrunc]_vars

(* ------------------------------ C6 ------------------------------------ *)

\* C6: truncate through an open handle wins over earlier unflushed
\* writes: when a write-mode handle holds accepted, unflushed writes that
\* extend the file to length L, File.Truncate(p, s) with s < L returns OK,
\* and Flush and then Release on the handle return OK with no write in
\* between, the backend object's size is s.
C6_TruncateWins ==
    hist.tg.phase = 3 => Len(backend[1]) = hist.tg.size

(* ------------------------------ C7 ------------------------------------ *)

\* C7: for a path with open write-mode handles and any interleaving of
\* File.Truncate(p, s) with Write and Flush on them, at the moment
\* Truncate returns OK the backend size of p is s, and no handle on p
\* reports a sticky error.
C7_TruncateSize ==
    (ret.op = "FileTruncate" /\ ret.errno = "OK" /\ hist.atRet.viaHandle) =>
        /\ hist.atRet.len = ret.n
        /\ \A h \in ListByPath(fileHandleMap, ret.f) : ~wr[h].err

(* ====================================================================== *)
(* SpecDelegate: which truncate File.Truncate issues. The kernel keeps at *)
(* most two handles open on file 1 (ReadOnly or WriteOnly), releases them *)
(* and truncates the path to a size that is or is not the size Stat       *)
(* reports; backend calls may fail, and the shutdown may begin while a    *)
(* truncate is in flight.                                                 *)
(* ====================================================================== *)

DelegOpen ==
    \E flags \in {0, O_WRONLY} :
        /\ \A a, b \in OpenHandles : a = b
        /\ FileOpen(1, flags, "ok", TRUE)
        /\ UNCHANGED hist
DelegRelease ==
    \E h \in Handles :
        Live(h) /\ ReleaseReader(h) /\ UNCHANGED hist
DelegReleaseStep ==
    \E h \in Handles : ReleaseStep(h, TRUE) /\ UNCHANGED hist
DelegCloseRemove ==
    \E h \in Handles : CloseFuncRemove(h) /\ UNCHANGED hist
DelegCloseClose ==
    \E h \in Handles : CloseFuncClose(h) /\ UNCHANGED hist
DelegEnter ==
    \E size \in {MaxSize - 2, MaxSize - 1}, o \in Outcomes :
        TruncateEnter(1, size, o) /\ UNCHANGED hist
DelegLookup ==
    \E o \in Outcomes : TruncateLookup(1, o) /\ UNCHANGED hist
DelegCall ==
    \E ok \in BOOLEAN : TruncateCall(1, ok) /\ UNCHANGED hist
DelegReturn ==
    TruncateReturn(1) /\ UNCHANGED hist
DelegTerminate ==
    tr[1].pc \in {"locked", "found"} /\ Terminate /\ UNCHANGED hist

NextDelegate ==
    \/ DelegOpen
    \/ DelegRelease
    \/ DelegReleaseStep
    \/ DelegCloseRemove
    \/ DelegCloseClose
    \/ DelegEnter
    \/ DelegLookup
    \/ DelegCall
    \/ DelegReturn
    \/ DelegTerminate

SpecDelegate == Init /\ [][NextDelegate]_vars


(* ------------------------------ C8 ------------------------------------ *)

\* C8: when File.Truncate finds a registered write-mode handle for the
\* path it truncates through exactly one handle: a write-mode handle of
\* the path, never a read-only one, never a second one, and never by path
\* in addition; the backend receives exactly one truncate, and if the
\* handle's Truncate fails its errno is what File.Truncate returns, with
\* nothing else attempted.
C8_OneTruncate ==
    [][/\ (tr[1].pc = "locked" /\ tr'[1].pc # "locked" /\ WriteHandles(1) # {}) =>
             /\ tr'[1].pc = "found"
             /\ Cardinality(tr'[1].called) = 1
             /\ tr'[1].called \subseteq WriteHandles(1)
             /\ tr'[1].viaPath = 0
             /\ tr'[1].issued = 0
             /\ backend' = backend
       /\ (tr[1].pc = "found" /\ tr'[1].pc # "found") =>
             /\ tr'[1].pc = "ret"
             /\ tr'[1].called = tr[1].called
             /\ tr'[1].viaPath = 0
             /\ tr'[1].issued = 1
             /\ tr'[1].errno # "OK" => backend' = backend]_vars


(* ------------------------------ C9 ------------------------------------ *)

\* C9 as stated: when File.Truncate finds no registered write-mode handle
\* it issues a truncate by path on the backend for every requested size,
\* also one equal to the size Stat reported.
C9_AlwaysByPath ==
    (tr[1].pc = "ret" /\ tr[1].called = {}) =>
        (tr[1].viaPath = 1 /\ tr[1].issued = 1)

\* C9, amended: when File.Truncate finds no registered write-mode handle
\* it issues one truncate by path on the backend if the requested size
\* differs from the size Stat reported; if the two are equal it issues no
\* backend call and returns OK.
C9_ByPathUnlessEqual ==
    (tr[1].pc = "ret" /\ tr[1].called = {}) =>
        IF tr[1].statSize # tr[1].size
        THEN tr[1].viaPath = 1 /\ tr[1].issued = 1
        ELSE tr[1].viaPath = 0 /\ tr[1].issued = 0 /\ tr[1].errno = "OK"

\* with only a ReadOnly handle registered for the path, File.Truncate
\* truncated by path to a size other than the one Stat reported
C9_Witness ==
    /\ tr[1].pc = "ret"
    /\ tr[1].called = {}
    /\ tr[1].viaPath = 1
    /\ tr[1].errno = "OK"
    /\ tr[1].statSize # tr[1].size
    /\ Len(backend[1]) = tr[1].size
    /\ \E h \in ListByPath(fileHandleMap, 1) : IsReadOnly(fh[h].mode)



(* ====================================================================== *)
(* SpecRT: the write/read round trip on file 1, which holds bytes before  *)
(* the run. One handle is opened for writing; the kernel writes a byte    *)
(* string from offset 0 on, split into Write calls of at most one block,  *)
(* flushes and releases; a second handle is opened ReadOnly and the file  *)
(* is read from offset 0 on, with any read sizes, until a read comes back *)
(* short. The upload worker and the reader's prefetch run in between. The *)
(* history keeps the flag word, the object before the first Open (pre),   *)
(* the bytes written (data) and the bytes read (got).                     *)
(* ====================================================================== *)

RtFlags ==
    {O_WRONLY, O_WRONLY + O_TRUNC, O_WRONLY + O_APPEND, O_RDWR,
     O_RDWR + O_TRUNC}

RtOpenWrite ==
    \E flags \in RtFlags :
        /\ hist.rt.phase = 0
        /\ \A h \in Handles : fh[h].st = "unused"
        /\ FileOpen(1, flags, "ok", TRUE)
        /\ hist' = [hist EXCEPT !.rt = [phase |-> 1, flags |-> flags,
                                        pre |-> backend[1], data |-> << >>,
                                        got |-> << >>]]
RtWrite ==
    \E h \in Handles, d \in DataSet \ {<< >>} :
        /\ hist.rt.phase = 1
        /\ Live(h)
        /\ Len(hist.rt.data) + Len(d) <= MaxSize
        /\ WriteEnter(h, d, Len(hist.rt.data))
        /\ UNCHANGED hist
RtWriteCall ==
    \E h \in Handles :
        /\ WriteCall(h, TRUE, fh[h].writer)
        /\ hist' = [hist EXCEPT !.rt.data = IF ret'.errno = "OK"
                                            THEN @ \o fh[h].call.data ELSE @,
                                !.rt.phase = IF ret'.errno = "OK"
                                             THEN 1 ELSE 9]
RtWorker ==
    \E h \in Handles : WriterWorker(h, TRUE) /\ UNCHANGED hist
RtFlush ==
    \E h \in Handles :
        /\ hist.rt.phase = 1
        /\ Live(h)
        /\ Quiet(h)
        /\ FlushEnter("Flush", h)
        /\ UNCHANGED hist
RtFlushCall ==
    \E h \in Handles :
        /\ FlushCall(h, TRUE, fh[h].writer)
        /\ hist' = [hist EXCEPT !.rt.phase = IF ret'.errno = "OK"
                                             THEN 2 ELSE 9]
RtRelease ==
    \E h \in Handles :
        /\ hist.rt.phase = 2
        /\ Live(h)
        /\ Quiet(h)
        /\ ReleaseReader(h)
        /\ hist' = [hist EXCEPT !.rt.phase = IF Live(h)' THEN 9 ELSE @]
RtReleaseStep ==
    \E h \in Handles :
        /\ ReleaseStep(h, TRUE)
        /\ hist' = [hist EXCEPT !.rt.phase = IF Live(h)' THEN 9 ELSE @]
RtCloseRemove ==
    \E h \in Handles : CloseFuncRemove(h) /\ UNCHANGED hist
RtCloseClose ==
    \E h \in Handles :
        /\ CloseFuncClose(h)
        /\ hist' = [hist EXCEPT !.rt.phase = IF ret'.errno = "OK"
                                             THEN 3 ELSE 9]
RtOpenRead ==
    /\ hist.rt.phase = 3
    /\ FileOpen(1, 0, "ok", TRUE)
    /\ hist' = [hist EXCEPT !.rt.phase = IF ret'.errno = "OK" THEN 4 ELSE 9]
\* the history after a Read of n bytes returned
RtObserveRead(n) ==
    hist' = [hist EXCEPT
        !.rt.got = @ \o ret'.data,
        !.rt.phase = IF ret'.errno # "OK" THEN 9
                     ELSE IF Len(ret'.data) < n THEN 5 ELSE 4]

RtRead ==
    \E h \in Handles, n \in 1..MaxSize :
        /\ hist.rt.phase = 4
        /\ Live(h)
        /\ Quiet(h)
        /\ ReadEnter(h, n, Len(hist.rt.got))
        /\ IF Quiet(h)' THEN RtObserveRead(n) ELSE UNCHANGED hist
RtReadCall ==
    \E h \in Handles :
        /\ ReadCall(h, TRUE, fh[h].reader)
        /\ RtObserveRead(fh[h].call.n)
RtPrefetch ==
    \E h \in Handles : Live(h) /\ Prefetch(h, TRUE) /\ UNCHANGED hist

NextRT ==
    \/ RtOpenWrite
    \/ RtWrite
    \/ RtWriteCall
    \/ RtWorker
    \/ RtFlush
    \/ RtFlushCall
    \/ RtRelease
    \/ RtReleaseStep
    \/ RtCloseRemove
    \/ RtCloseClose
    \/ RtOpenRead
    \/ RtRead
    \/ RtReadCall
    \/ RtPrefetch

SpecRT == Init /\ [][NextRT]_vars

(* ------------------------------ C10 ----------------------------------- *)

\* C10 as stated: Open(write mode), Write(data, 0), Flush, Release, then
\* Open(ReadOnly) and reads covering the whole file yield exactly data,
\* whatever the split into Write calls and whatever the read sizes.
C10_RoundTrip ==
    hist.rt.phase = 5 => hist.rt.got = hist.rt.data

\* the flag words File.Open translates to WriteTruncate
RtTruncating(flags) ==
    HasFlag(flags, O_WRONLY) /\ HasFlag(flags, O_TRUNC)
        /\ ~HasFlag(flags, O_APPEND)

\* C10, amended: the reads yield data followed by the bytes the object
\* held beyond Len(data) before the first Open; they yield exactly data
\* when the handle was opened WriteTruncate (O_WRONLY|O_TRUNC without
\* O_APPEND) or the object was not longer than data.
C10_RoundTripOverOld ==
    hist.rt.phase = 5 =>
        LET data == hist.rt.data
            pre  == hist.rt.pre
        IN  /\ hist.rt.got =
                 IF RtTruncating(hist.rt.flags) \/ Len(pre) <= Len(data)
                 THEN data
                 ELSE data \o SubSeq(pre, Len(data) + 1, Len(pre))

\* a round trip through a WriteOnly handle over a longer object: one byte
\* written, the byte followed by the old second byte read back
C10_Witness ==
    /\ hist.rt.phase = 5
    /\ hist.rt.flags = O_WRONLY
    /\ hist.rt.data = <<1>>
    /\ hist.rt.pre = <<2, 1>>
    /\ hist.rt.got = <<1, 1>>
    /\ backend[1] = <<1, 1>>



(* ====================================================================== *)
(* SpecRW: one handle opened ReadWrite on file 1. The kernel writes byte  *)
(* strings at offsets below, at and beyond the size the handle recorded   *)
(* at open, and reads back the range of the last write that succeeded.    *)
(* The history keeps that write (rw) and whether the last operation was   *)
(* the read of its range.                                                 *)
(* ====================================================================== *)

RwOpen ==
    /\ \A h \in Handles : fh[h].st = "unused"
    /\ FileOpen(1, O_RDWR, "ok", TRUE)
    /\ UNCHANGED hist
RwWrite ==
    \E h \in Handles, d \in DataSet \ {<< >>}, off \in {0, MaxSize - 1, MaxSize} :
        /\ Live(h)
        /\ WriteEnter(h, d, off)
        /\ UNCHANGED hist
RwWriteCall ==
    \E h \in Handles, ok \in BOOLEAN :
        /\ WriteCall(h, ok, fh[h].writer)
        /\ hist' = [hist EXCEPT !.rw =
                       IF ret'.errno = "OK"
                       THEN [off |-> fh[h].call.off, data |-> fh[h].call.data,
                             read |-> FALSE]
                       ELSE [@ EXCEPT !.read = FALSE]]
\* the read that has returned is the read of the range of the last write
RwObserveRead(n, off) ==
    hist' = [hist EXCEPT !.rw.read =
                hist.rw.data # << >> /\ n = Len(hist.rw.data) /\ off = hist.rw.off]

RwRead ==
    \E h \in Handles :
        /\ Live(h)
        /\ Quiet(h)
        /\ hist.rw.data # << >>
        /\ ReadEnter(h, Len(hist.rw.data), hist.rw.off)
        /\ IF Quiet(h)' THEN RwObserveRead(Len(hist.rw.data), hist.rw.off)
           ELSE UNCHANGED hist
RwReadOther ==
    \E h \in Handles, n \in 1..iRODSIOBlockSize, off \in {0, MaxSize} :
        /\ Live(h)
        /\ Quiet(h)
        /\ ~(n = Len(hist.rw.data) /\ off = hist.rw.off)
        /\ ReadEnter(h, n, off)
        /\ IF Quiet(h)' THEN RwObserveRead(n, off) ELSE UNCHANGED hist
RwReadCall ==
    \E h \in Handles :
        /\ ReadCall(h, TRUE, fh[h].reader)
        /\ RwObserveRead(fh[h].call.n, fh[h].call.off)

NextRW ==
    \/ RwOpen
    \/ RwWrite
    \/ RwWriteCall
    \/ RwRead
    \/ RwReadOther
    \/ RwReadCall

SpecRW == Init /\ [][NextRW]_vars

(* ------------------------------ C11 ----------------------------------- *)

\* C11: on a handle opened ReadWrite, after Write(data, off) returned OK a
\* later Read on the handle covering [off, off+len(data)) returns data,
\* also when the written range lies at or beyond the size the handle
\* recorded at open.
C11_ReadYourWrite ==
    hist.rw.read => (ret.errno = "OK" /\ ret.data = hist.rw.data)



(* ====================================================================== *)
(* SpecLock: the local byte-range locks of one handle. The kernel opens   *)
(* a handle and issues GetLocalLock, SetLocalLock, SetLocalLockW and      *)
(* Setlkw requests of every type for the ranges [0,0], [1,1] and [0,1].   *)
(* The history keeps the request of the last call (lk)                    *)
(* and counts the calls modulo 2 (tick).                                  *)
(* ====================================================================== *)

LockRanges == {<<0, 0>>, <<1, 1>>, <<0, 1>>}

\* the requests of pid p
RequestsOf(p) ==
    {[type |-> t, pid |-> p, start |-> r[1], end |-> r[2]] :
        t \in {F_RDLCK, F_WRLCK, F_UNLCK}, r \in LockRanges}

\* pid 1 sets and releases locks, pids 1 and 2 ask for them
LockRequests == RequestsOf(1)

\* the history when a lock call with request lk returns
ObserveLock(lk) == hist' = [hist EXCEPT !.tick = 1 - @, !.lk = lk]

LockOpen ==
    /\ \A h \in Handles : fh[h].st = "unused"
    /\ FileOpen(1, 0, "ok", TRUE)
    /\ UNCHANGED hist
LockGet ==
    \E h \in Handles, lk \in RequestsOf(1) \cup RequestsOf(2) :
        Live(h) /\ FileHandleGetLocalLock("GetLocalLock", h, lk) /\ ObserveLock(lk)
LockSet ==
    \E h \in Handles, lk \in LockRequests :
        Live(h) /\ FileHandleSetLocalLock("SetLocalLock", h, lk) /\ ObserveLock(lk)
LockSetW ==
    \E h \in Handles, lk \in LockRequests :
        Live(h) /\ FileHandleSetLocalLockW("SetLocalLockW", h, lk) /\ ObserveLock(lk)
LockSetlkw ==
    \E h \in Handles, lk \in LockRequests :
        Live(h) /\ FileHandleSetlkw(h, lk) /\ ObserveLock(lk)

LockTerminate ==
    (\E h \in Handles : Live(h)) /\ Terminate /\ UNCHANGED hist

NextLock ==
    \/ LockOpen
    \/ LockGet
    \/ LockSet
    \/ LockSetW
    \/ LockSetlkw
    \/ LockTerminate

SpecLock == Init /\ [][NextLock]_vars


\* a lock call returned in this step
LockCall(op) == hist'.tick # hist.tick /\ ret'.op = op

\* record l and a request for [start, end] share a byte
Overlap(l, lk) == l.start <= lk.end /\ lk.start <= l.end

(* ------------------------------ C12 ----------------------------------- *)

\* C12: SetLocalLock with type Read or Write fails with EAGAIN and leaves
\* the lock table unchanged if and only if some record of the handle's
\* table has a range intersecting the requested one and the two types are
\* not both Read; in every other case one record carrying the request is
\* inserted and OK is returned (past the entry check of the termination
\* flag).
C12_LockConflict ==
    [][(LockCall("SetLocalLock") /\ ~terminated
            /\ hist'.lk.type \in {F_RDLCK, F_WRLCK}) =>
          LET h  == ret'.h
              lk == hist'.lk
              clash == \E l \in locks[h] :
                          Overlap(l, lk)
                              /\ ~(l.type = F_RDLCK /\ lk.type = F_RDLCK)
          IN  IF clash
              THEN ret'.errno = "EAGAIN" /\ locks' = locks
              ELSE /\ ret'.errno = "OK"
                   /\ \E l \in locks'[h] \ locks[h] :
                         /\ locks'[h] = locks[h] \cup {l}
                         /\ l.type = lk.type /\ l.pid = lk.pid
                         /\ l.start = lk.start /\ l.end = lk.end]_vars

\* a Read request over [0,1] was turned away with EAGAIN by a Write record
\* on [1,1], next to a Read record the request would not conflict with
C12_Witness ==
    /\ ret.op = "SetLocalLock"
    /\ ret.errno = "EAGAIN"
    /\ hist.lk.type = F_RDLCK
    /\ hist.lk.start = 0 /\ hist.lk.end = 1
    /\ \E l \in locks[ret.h] : l.type = F_WRLCK /\ l.start = 1 /\ l.end = 1
    /\ \E l \in locks[ret.h] : l.type = F_RDLCK /\ l.start = 0 /\ l.end = 0


(* ------------------------------ C14 ----------------------------------- *)

\* C14: SetLocalLock with type Unlock on [start, end]: if a record of the
\* handle's table intersects the range, every intersecting record is
\* removed, no other record is removed and OK is returned; if none
\* intersects, the call fails with ENOLCK and the table is unchanged.
C14_Unlock ==
    [][(LockCall("SetLocalLock") /\ ~terminated
            /\ hist'.lk.type = F_UNLCK) =>
          LET h  == ret'.h
              lk == hist'.lk
              hit == {l \in locks[h] : Overlap(l, lk)}
          IN  IF hit # {}
              THEN /\ ret'.errno = "OK"
                   /\ locks' = [locks EXCEPT ![h] = @ \ hit]
              ELSE ret'.errno = "ENOLCK" /\ locks' = locks]_vars


(* ------------------------------ C15 ----------------------------------- *)

\* C15: GetLocalLock never modifies the lock table and returns OK (past
\* the entry check of the termination flag): if a record of the handle
\* intersects the range, the reply carries the start, end, pid and type of
\* an intersecting record; otherwise it carries the request's own start,
\* end and pid with type F_UNLCK.
C15_GetLocalLock ==
    [][(LockCall("GetLocalLock") /\ ~terminated) =>
          LET h  == ret'.h
              lk == hist'.lk
              hit == {l \in locks[h] : Overlap(l, lk)}
          IN  /\ locks' = locks
              /\ ret'.errno = "OK"
              /\ IF hit # {}
                 THEN \E l \in hit :
                         ret'.data = <<l.type, l.start, l.end, l.pid>>
                 ELSE ret'.data = <<F_UNLCK, lk.start, lk.end, lk.pid>>]_vars

\* pid 2 asked about [0,1] and was answered with the Write record of pid 1
\* on [1,1], which the table still holds
C15_Witness ==
    /\ ret.op = "GetLocalLock"
    /\ ret.errno = "OK"
    /\ hist.lk.pid = 2 /\ hist.lk.start = 0 /\ hist.lk.end = 1
    /\ ret.data = <<F_WRLCK, 1, 1, 1>>
    /\ \E l \in locks[ret.h] :
          l.type = F_WRLCK /\ l.start = 1 /\ l.end = 1 /\ l.pid = 1

(* ------------------------------ C16 ----------------------------------- *)

\* C16: SetLocalLockW, and Setlkw routed to it, never acquires a lock:
\* with the termination flag unset it returns ENOTSUP for every lock type
\* and range, also for a request that conflicts with nothing, and the
\* handle's lock table is unchanged.
C16_NoBlockingLock ==
    [][((LockCall("SetLocalLockW") \/ LockCall("Setlkw")) /\ ~terminated) =>
          (ret'.errno = "ENOTSUP" /\ locks' = locks)]_vars

\* Setlkw with a Write request on an empty table returned ENOTSUP and the
\* table is still empty
C16_Witness ==
    /\ ret.op = "Setlkw"
    /\ ret.errno = "ENOTSUP"
    /\ hist.lk.type = F_WRLCK
    /\ ret.h \in Handles
    /\ Live(ret.h)
    /\ locks[ret.h] = {}



(* ====================================================================== *)
(* SpecLockPair: two SetLocalLock(Write) calls with overlapping ranges on *)
(* one handle. Before the pair the kernel sets and releases locks on the  *)
(* handle, one call at a time; then the two calls run in any              *)
(* interleaving of their steps, each a scan of the table followed, when   *)
(* it found no conflict, by the insert of its record. The history keeps   *)
(* the two requests in the order of their scans, whether a record of the  *)
(* table intersected each of them before the pair (held1, held2), what    *)
(* the calls returned (e1, e2), and whether the Lock of the first call    *)
(* had completed when that of the second began (apart).                   *)
(* ====================================================================== *)

\* the pairs of Write requests, of pids 1 and 2, whose ranges overlap
WritePairs ==
    {p \in RequestsOf(1) \X RequestsOf(2) :
        /\ p[1].type = F_WRLCK /\ p[2].type = F_WRLCK
        /\ Overlap(p[1], p[2])}

\* the Write requests of the pairs
WriteRequests == {p[1] : p \in WritePairs} \cup {p[2] : p \in WritePairs}

PairOpen ==
    /\ \A h \in Handles : fh[h].st = "unused"
    /\ FileOpen(1, 0, "ok", TRUE)
    /\ UNCHANGED hist
PairBefore ==
    \E h \in Handles, lk \in LockRequests :
        /\ hist.pair.phase = 0
        /\ Live(h)
        /\ FileHandleSetLocalLock("SetLocalLock", h, lk)
        /\ UNCHANGED hist
\* the call of the pair that reaches the table first: its entry check and
\* its scan
PairFirst ==
    \E h \in Handles, p \in WritePairs, swap \in BOOLEAN :
        LET a == IF swap THEN p[2] ELSE p[1]
            b == IF swap THEN p[1] ELSE p[2]
        IN  /\ hist.pair.phase = 0
            /\ Live(h)
            /\ SetLocalLockScan("SetLocalLock", h, a)
            /\ hist' = [hist EXCEPT !.pair =
                   [phase |-> 1, first |-> a, second |-> b,
                    held1 |-> \E l \in locks[h] : Overlap(l, a),
                    held2 |-> \E l \in locks[h] : Overlap(l, b),
                    e1 |-> IF a \in fh'[h].locking THEN "" ELSE ret'.errno,
                    e2 |-> "", apart |-> TRUE]]
\* the other call of the pair: its entry check and its scan, before or
\* after the insert of the first
PairSecond ==
    \E h \in Handles :
        LET b == hist.pair.second
        IN  /\ hist.pair.phase = 1
            /\ Live(h)
            /\ SetLocalLockScan("SetLocalLock", h, b)
            /\ hist' = [hist EXCEPT
                   !.pair.phase = 2,
                   !.pair.apart = (fh[h].locking = {}),
                   !.pair.e2 = IF b \in fh'[h].locking THEN "" ELSE ret'.errno]
\* the insert of a call of the pair whose scan found no conflict
PairInsert ==
    \E h \in Handles, lk \in WriteRequests :
        /\ SetLocalLockInsert("SetLocalLock", h, lk)
        /\ hist' = [hist EXCEPT
               !.pair.e1 = IF lk = hist.pair.first THEN ret'.errno ELSE @,
               !.pair.e2 = IF lk = hist.pair.second THEN ret'.errno ELSE @]

NextLockPair ==
    \/ PairOpen
    \/ PairBefore
    \/ PairFirst
    \/ PairSecond
    \/ PairInsert

SpecLockPair == Init /\ [][NextLockPair]_vars

\* both calls of the pair have returned
PairDone == hist.pair.e1 # "" /\ hist.pair.e2 # ""

(* ------------------------------ C13 ----------------------------------- *)

FrameRequests == {lk \in LockRequests : lk.start = 0}

FrameOpen ==
    \E f \in RemoteFiles :
        /\ Cardinality({h \in Handles : fh[h].st # "unused"}) < 2
        /\ (\A h \in Handles : fh[h].st = "unused") => f = 1
        /\ FileOpen(f, 0, "ok", TRUE)
        /\ UNCHANGED hist
FrameGet ==
    \E h \in Handles, lk \in FrameRequests :
        Live(h) /\ FileHandleGetLocalLock("GetLocalLock", h, lk) /\ ObserveLock(lk)
FrameSet ==
    \E h \in Handles, lk \in FrameRequests :
        Live(h) /\ FileHandleSetLocalLock("SetLocalLock", h, lk) /\ ObserveLock(lk)

NextLockFrame ==
    \/ FrameOpen
    \/ FrameGet
    \/ FrameSet

SpecLockFrame == Init /\ [][NextLockFrame]_vars

(* ------------------------------ C17 ----------------------------------- *)

\* what a lock call answers when it looks at the table L alone
OwnAnswer(L, op, lk) ==
    LET hit == {l \in L : Overlap(l, lk)}
    IN  IF op = "GetLocalLock"
        THEN [errno |-> "OK", held |-> hit # {}]
        ELSE IF lk.type = F_UNLCK
        THEN [errno |-> IF hit # {} THEN "OK" ELSE "ENOENT", held |-> hit # {}]
        ELSE [errno |-> IF \E l \in hit : ~(l.type = F_RDLCK /\ lk.type = F_RDLCK)
                        THEN "EAGAIN" ELSE "OK",
              held |-> hit # {}]

\* C17: lock tables are per handle: a lock call on one handle never
\* changes the lock table of another handle, and what GetLocalLock and
\* SetLocalLock answer on a handle is decided by that handle's own table
\* and the request, whatever the other handle holds.
C17_PerHandle ==
    [][(LockCall("GetLocalLock") \/ LockCall("SetLocalLock")) =>
          LET h   == ret'.h
              own == OwnAnswer(locks[h], ret'.op, hist'.lk)
          IN  /\ \A g \in Handles \ {h} : locks'[g] = locks[g]
              /\ ret'.errno = own.errno
              /\ (ret'.op = "GetLocalLock" /\ ~own.held) =>
                     ret'.data[1] = F_UNLCK
              /\ (ret'.op = "GetLocalLock" /\ own.held) =>
                     \E l \in locks[h] :
                         ret'.data = <<l.type, l.start, l.end, l.pid>>]_vars

\* while the handle on file 1 holds a Write lock on [0,1], the handle on
\* file 2 was granted a Write lock on [0,1] as well
C17_Witness ==
    /\ ret.op = "SetLocalLock"
    /\ ret.errno = "OK"
    /\ ret.f = 2
    /\ hist.lk.type = F_WRLCK /\ hist.lk.end = 1
    /\ \E g \in Handles \ {ret.h} :
          /\ Live(g)
          /\ fh[g].file = 1
          /\ \E l \in locks[g] : l.type = F_WRLCK /\ l.start = 0 /\ l.end = 1
    /\ \E l \in locks[ret.h] : l.type = F_WRLCK /\ l.start = 0 /\ l.end = 1



(* ====================================================================== *)
(* SpecOpen: File.Open with every combination of the access and status    *)
(* bits O_WRONLY, O_RDWR, O_TRUNC and O_APPEND, on a writable remote      *)
(* file, a remote file under a read-only mapping, a virtual directory     *)
(* entry and an unmapped path, with every outcome of the backend open and *)
(* of the reader's construction, while at most one handle is open or was  *)
(* opened before. Handles are released, a Release being repeated when it  *)
(* returned an error, and read-only ones are closed in the background.    *)
(* Once the kernel has opened its last file it reads and writes the open  *)
(* handles, with backend transfers that may fail, and the shutdown path   *)
(* may set the termination flag. The history keeps the flag word          *)
(* of the last Open (oflags), what its backend open and reader            *)
(* construction did (ores), and counts the Open calls modulo 2 (tick).    *)
(* ====================================================================== *)

\* every word over the four bits
FlagCombos ==
    {w * O_WRONLY + r * O_RDWR + t * O_TRUNC + a * O_APPEND :
        w \in {0, 1}, r \in {0, 1}, t \in {0, 1}, a \in {0, 1}}

\* what the backend open and the reader's construction do: the second
\* matters only after the first succeeded
OpenResults ==
    {<<"ok", TRUE>>, <<"ok", FALSE>>, <<"notfound", TRUE>>, <<"fail", TRUE>>}

\* the handles File.Open has returned so far
Opened == {h \in Handles : fh[h].st # "unused"}

\* the first Open takes every flag word, a later one a word of each mode
OpenOpen ==
    \E f \in Files, flags \in FlagCombos, o \in OpenResults :
        /\ Cardinality(Opened) < 2
        /\ Opened # {} => flags \in ModeFlags
        /\ FileOpen(f, flags, o[1], o[2])
        /\ hist' = [hist EXCEPT !.tick = 1 - @, !.oflags = flags, !.ores = o]
\* the kernel has opened its last file and has no request in flight
OpenQuiet == LifeQuiet /\ Cardinality(Opened) = 2

OpenRead ==
    \E h \in Handles :
        OpenQuiet /\ Live(h) /\ ReadEnter(h, 1, 0) /\ UNCHANGED hist
OpenReadCall ==
    \E h \in Handles, ok \in BOOLEAN :
        ReadCall(h, ok, fh[h].reader) /\ UNCHANGED hist
OpenWrite ==
    \E h \in Handles :
        OpenQuiet /\ Live(h) /\ WriteEnter(h, <<1>>, 0) /\ UNCHANGED hist
OpenWriteCall ==
    \E h \in Handles :
        WriteCall(h, TRUE, fh[h].writer) /\ UNCHANGED hist
OpenRelease ==
    \E h \in Handles :
        LifeQuiet /\ Live(h) /\ ReleaseReader(h) /\ UNCHANGED hist
OpenReleaseStep ==
    \E h \in Handles, ok \in BOOLEAN : ReleaseStep(h, ok) /\ UNCHANGED hist
OpenTerminate ==
    OpenQuiet /\ Terminate /\ UNCHANGED hist
OpenCloseRemove ==
    \E h \in Handles : CloseFuncRemove(h) /\ UNCHANGED hist
OpenCloseClose ==
    \E h \in Handles : CloseFuncClose(h) /\ UNCHANGED hist

NextOpenSpec ==
    \/ OpenOpen
    \/ OpenRead
    \/ OpenReadCall
    \/ OpenWrite
    \/ OpenWriteCall
    \/ OpenRelease
    \/ OpenReleaseStep
    \/ OpenCloseRemove
    \/ OpenCloseClose
    \/ OpenTerminate

SpecOpen == Init /\ [][NextOpenSpec]_vars

\* an Open call returned in this step
OpenCall == hist'.tick # hist.tick /\ ret'.op = "Open"

(* ------------------------------ C18 ----------------------------------- *)

\* the open mode the precedence of C18 gives a flag word
ModeByPrecedence(flags) ==
    LET w == HasFlag(flags, O_WRONLY)
        r == HasFlag(flags, O_RDWR)
        t == HasFlag(flags, O_TRUNC)
        a == HasFlag(flags, O_APPEND)
    IN  CASE w /\ a -> "a"
          [] w /\ t /\ ~a -> "w+"
          [] w /\ ~t /\ ~a -> "w"
          [] ~w /\ r -> "r+"
          [] OTHER -> "r"

\* C18: File.Open maps every flag word to one open mode by precedence:
\* O_WRONLY with O_APPEND gives Append (also with O_TRUNC); O_WRONLY with
\* O_TRUNC and without O_APPEND gives WriteTruncate; O_WRONLY without
\* either gives WriteOnly; O_RDWR without O_WRONLY gives ReadWrite; any
\* other word gives ReadOnly.
C18_OpenMode ==
    [][(OpenCall /\ ret'.errno = "OK") =>
          fh'[ret'.h].mode = ModeByPrecedence(hist'.oflags)]_vars

\* Open with O_WRONLY|O_RDWR|O_TRUNC|O_APPEND returned a handle in mode
\* Append
C18_Witness ==
    /\ ret.op = "Open"
    /\ ret.errno = "OK"
    /\ hist.oflags = O_WRONLY + O_RDWR + O_TRUNC + O_APPEND
    /\ fh[ret.h].mode = FileOpenModeAppend

\* what File.Open returns once the mapping checks are passed, from what the
\* backend open and the construction of the handle did
AfterMappingChecks(mode, o) ==
    CASE o[1] = "notfound" -> "ENOENT"
      [] o[1] = "fail" -> "EREMOTEIO"
      [] o[1] = "ok" /\ IsReadOnly(mode) /\ ~o[2] -> "EREMOTEIO"
      [] OTHER -> "OK"

\* C19: on a path whose closest mapping is read_only, Open with any mode
\* other than ReadOnly fails with EROFS, opens nothing on the backend and
\* registers no handle; Open with ReadOnly on that path passes the
\* read-only check, its result being that of the backend open.
C19_ReadOnlyMapping ==
    [][(OpenCall /\ VPathKind(ret'.f) = "remote" /\ VPathReadOnly(ret'.f)) =>
          LET mode == ModeByPrecedence(hist'.oflags)
          IN  IF mode # FileOpenModeReadOnly
              THEN /\ ret'.errno = "EROFS"
                   /\ fh' = fh
                   /\ backend' = backend
                   /\ fileHandleMap' = fileHandleMap
              ELSE ret'.errno = AfterMappingChecks(mode, hist'.ores)]_vars

\* the handles the registry holds, in either index
InRegistry(m) == m.ids \cup UNION {m.byPath[p] : p \in DOMAIN m.byPath}

\* a Release call returned in this step
ReleaseReturned == ret' # ret /\ ret'.op = "Release"

\* C20: the registry holds a handle exactly while it is open. Open returns
\* OK if and only if it added one new handle under its id and its path; a
\* failing Open leaves the registry unchanged; a live handle is in both
\* indexes and a registered one is not closed yet; a handle leaves the
\* registry only in the Remove of the closeFunc of its own Release, and a
\* Release that returns an error has removed nothing.
C20_Registry ==
    [][/\ OpenCall =>
            IF ret'.errno = "OK"
            THEN /\ ret'.h \notin InRegistry(fileHandleMap)
                 /\ fileHandleMap'.ids = fileHandleMap.ids \cup {ret'.h}
                 /\ fileHandleMap'.byPath =
                        [fileHandleMap.byPath EXCEPT ![ret'.f] = @ \cup {ret'.h}]
                 /\ fh'[ret'.h].st = "live"
                 /\ fh'[ret'.h].file = ret'.f
            ELSE fileHandleMap' = fileHandleMap
       /\ \A h \in Handles :
            /\ (fh'[h].st = "live") =>
                   /\ h \in fileHandleMap'.ids
                   /\ h \in ListByPath(fileHandleMap', fh'[h].file)
            /\ (h \in InRegistry(fileHandleMap')) =>
                   /\ fh'[h].st \in {"live", "closing"}
                   /\ ~fh'[h].closed
                   /\ h \in fileHandleMap'.ids
                   /\ \A p \in DOMAIN fileHandleMap'.byPath :
                          h \in fileHandleMap'.byPath[p] <=> p = fh'[h].file
            /\ (h \in InRegistry(fileHandleMap) /\ h \notin InRegistry(fileHandleMap')) =>
                   /\ fh[h].closing
                   /\ fh'[h].st = "removed"
                   /\ ~fh'[h].closed
                   /\ \A g \in Handles \ {h} :
                          g \in InRegistry(fileHandleMap) <=>
                              g \in InRegistry(fileHandleMap')
       /\ (ReleaseReturned /\ ret'.errno # "OK") =>
            /\ fileHandleMap' = fileHandleMap
            /\ fh'[ret'.h].st = "live"
            /\ ret'.h \in fileHandleMap'.ids
            /\ ret'.h \in ListByPath(fileHandleMap', ret'.f)]_vars

\* a Release whose flush failed returned EREMOTEIO and left its handle in
\* the id index and under its path, after an earlier handle had been
\* opened, released and closed, and had left the registry
C20_Witness ==
    /\ ret.op = "Release"
    /\ ret.errno = "EREMOTEIO"
    /\ fh[ret.h].st = "live"
    /\ fileHandleMap.ids = {ret.h}
    /\ ListByPath(fileHandleMap, ret.f) = {ret.h}
    /\ \E g \in Handles : g # ret.h /\ fh[g].st = "closed"

\* the pipelines by open mode, as a table: <<reader, writer>>
PipelinesByMode(mode) ==
    CASE mode = FileOpenModeReadOnly -> <<"async", "nilwriter">>
      [] mode \in {FileOpenModeWriteOnly, FileOpenModeAppend,
                   FileOpenModeWriteTruncate} -> <<"nilreader", "async">>
      [] mode \in {FileOpenModeReadWrite, FileOpenModeReadAppend} ->
             <<"sync", "sync">>

\* C21: the pipelines of a handle are determined by its open mode alone:
\* ReadOnly gets the prefetching reader and a stub writer that errors on
\* write; WriteOnly, Append and WriteTruncate a stub reader and the async
\* buffered writer; ReadWrite the synchronous reader and the synchronous
\* writer.
C21_Pipelines ==
    [][(OpenCall /\ ret'.errno = "OK") =>
          LET h == ret'.h
              P == [w |-> NoWriter, c |-> << >>]
          IN  /\ <<fh'[h].reader, fh'[h].writer>> = PipelinesByMode(fh'[h].mode)
              /\ fh'[h].writer = "nilwriter" =>
                     WriterWriteAt(fh'[h].writer, P, 0, <<1>>, TRUE).w.err
              /\ rd'[h] = NoReader
              /\ wr'[h] = NoWriter]_vars

\* Open with O_RDWR returned a ReadWrite handle with the synchronous
\* reader and the synchronous writer
C21_Witness ==
    /\ ret.op = "Open"
    /\ ret.errno = "OK"
    /\ hist.oflags = O_RDWR
    /\ fh[ret.h].mode = FileOpenModeReadWrite
    /\ fh[ret.h].reader = "sync"
    /\ fh[ret.h].writer = "sync"


(* ====================================================================== *)
(* SpecIO: one handle, on file 1 opened in any of the five modes or on    *)
(* the longer file 2, of a read-only mapping, opened for reading. The     *)
(* kernel reads a block at offsets below, at and beyond the end of the    *)
(* object, writes byte strings of every length from 0 at offsets from -1, *)
(* and truncates to 0 through the handle, while the upload worker and the *)
(* prefetch run; backend calls may fail. The history keeps the offset and *)
(* the length of the last call (io) and counts the calls modulo 2 (tick). *)
(* ====================================================================== *)

\* one flag word for each open mode
IoFlags == {0, O_RDWR, O_WRONLY, O_WRONLY + O_TRUNC, O_WRONLY + O_APPEND}

\* the byte strings written: empty, one byte, one block
IoData == {<< >>, <<1>>, <<1, 2>>}

\* the offsets written at: negative, the start and the end of the object
IoOffsets == {-1, 0, MaxSize - 1}

IoCall(off, len) ==
    hist' = [hist EXCEPT !.tick = 1 - @, !.io = [off |-> off, len |-> len]]

\* a call passed its checks and has not returned yet
IoPending(off, len) ==
    hist' = [hist EXCEPT !.io = [off |-> off, len |-> len]]

IoOpen ==
    /\ \A h \in Handles : fh[h].st = "unused"
    /\ \E f \in RemoteFiles, flags \in IoFlags :
           /\ VPathReadOnly(f) => flags = 0
           /\ FileOpen(f, flags, "ok", TRUE)
    /\ UNCHANGED hist
\* the kernel issues one request at a time on the handle; a call is
\* counted when it returns: at once when its checks turn it away, else
\* when its call of the pipeline is done
IoRead ==
    \E h \in Handles, off \in 0..(MaxSize + 1) :
        /\ Live(h)
        /\ Quiet(h)
        /\ ReadEnter(h, iRODSIOBlockSize, off)
        /\ IF Quiet(h)' THEN IoCall(off, iRODSIOBlockSize)
           ELSE IoPending(off, iRODSIOBlockSize)
IoReadCall ==
    \E h \in Handles, ok \in BOOLEAN :
        /\ ReadCall(h, ok, fh[h].reader)
        /\ IoCall(fh[h].call.off, fh[h].call.n)
IoWrite ==
    \E h \in Handles, d \in IoData, off \in IoOffsets :
        /\ Live(h)
        /\ Quiet(h)
        /\ WriteEnter(h, d, off)
        /\ IF Quiet(h)' THEN IoCall(off, Len(d)) ELSE IoPending(off, Len(d))
IoWriteCall ==
    \E h \in Handles, ok \in BOOLEAN :
        /\ WriteCall(h, ok, fh[h].writer)
        /\ IoCall(fh[h].call.off, Len(fh[h].call.data))
IoTruncate ==
    \E h \in Handles, size \in {0}, ok \in BOOLEAN :
        Live(h) /\ Quiet(h) /\ FileHandleTruncate(h, size, ok) /\ IoCall(size, 0)
IoWorker ==
    \E h \in Handles, ok \in BOOLEAN :
        Live(h) /\ WriterWorker(h, ok) /\ UNCHANGED hist
IoPrefetch ==
    \E h \in Handles, ok \in BOOLEAN :
        Live(h) /\ Prefetch(h, ok) /\ UNCHANGED hist

NextIO ==
    \/ IoOpen
    \/ IoRead
    \/ IoReadCall
    \/ IoWrite
    \/ IoWriteCall
    \/ IoTruncate
    \/ IoWorker
    \/ IoPrefetch

SpecIO == Init /\ [][NextIO]_vars

\* the step is a call of op on a handle
IoStep(op) == hist'.tick # hist.tick /\ ret'.op = op

\* the step went through neither pipeline and not to the backend
NoIO == wr' = wr /\ rd' = rd /\ backend' = backend /\ fh' = fh

(* ------------------------------ C22 ----------------------------------- *)

\* C22: operations are validated against the open mode before any I/O:
\* Read on a handle not opened for reading returns EBADFD without calling
\* the reader; Write and Truncate on a handle not opened for writing
\* return EBADFD without calling the writer or the backend; the backend
\* object is unchanged in each case.
C22_ModeValidated ==
    [][/\ (IoStep("Read") /\ ~terminated /\ ~IsReadMode(fh[ret'.h].mode)) =>
             (ret'.errno = "EBADFD" /\ ret'.n = 0 /\ NoIO)
       /\ (IoStep("Write") /\ ~terminated /\ ~IsWriteMode(fh[ret'.h].mode)) =>
             (ret'.errno = "EBADFD" /\ ret'.n = 0 /\ NoIO)
       /\ (IoStep("Truncate") /\ ~terminated /\ ~IsWriteMode(fh[ret'.h].mode)) =>
             (ret'.errno = "EBADFD" /\ NoIO)]_vars

\* a Write of one block on a ReadOnly handle returned EBADFD after an
\* earlier Read had filled the reader's cache
C22_Witness ==
    /\ ret.op = "Write"
    /\ ret.errno = "EBADFD"
    /\ hist.io.len = iRODSIOBlockSize
    /\ fh[ret.h].mode = FileOpenModeReadOnly
    /\ rd[ret.h].cache # << >>
    /\ backend[1] = <<2, 1>>

(* ------------------------------ C23 ----------------------------------- *)

\* C23: a Write with negative offset on a write-mode handle fails with
\* EINVAL for every data length, including length 0, and submits nothing
\* to the writer pipeline.
C23_NegativeOffset ==
    [][(IoStep("Write") /\ ~terminated /\ IsWriteMode(fh[ret'.h].mode)
          /\ hist'.io.off < 0) =>
          (ret'.errno = "EINVAL" /\ ret'.n = 0 /\ NoIO)]_vars

(* ------------------------------ C24 ----------------------------------- *)

\* C24: a zero-length Write on a write-mode handle returns 0 bytes written
\* with success and submits nothing to the writer pipeline: buffer, queue
\* and backend object are unchanged.
C24_ZeroLength ==
    [][(IoStep("Write") /\ ~terminated /\ IsWriteMode(fh[ret'.h].mode)
          /\ hist'.io.len = 0) =>
          (ret'.errno = "OK" /\ ret'.n = 0 /\ NoIO)]_vars

\* a zero-length Write returned OK on a WriteOnly handle whose buffer
\* holds a byte and whose queue holds a block
C24_Witness ==
    /\ ret.op = "Write"
    /\ ret.errno = "OK"
    /\ hist.io.len = 0
    /\ fh[ret.h].writer = "async"
    /\ wr[ret.h].buf.data # << >>
    /\ wr[ret.h].queue # << >>

(* ------------------------------ C25 ----------------------------------- *)

\* C25: a Read on a read-mode handle at any offset greater than or equal
\* to the file size returns zero bytes and no error, including at the
\* offset equal to the size.
C25_ReadAtEnd ==
    [][(IoStep("Read") /\ ~terminated /\ IsReadMode(fh[ret'.h].mode)
          /\ hist'.io.off >= fh[ret'.h].size
          /\ hist'.io.off >= Len(backend[fh[ret'.h].file])) =>
          (ret'.errno = "OK" /\ ret'.n = 0 /\ ret'.data = << >>)]_vars


(* ====================================================================== *)
(* SpecClose: Release against the operations that run beside it. The      *)
(* kernel opens one handle on file 1 (ReadOnly, WriteOnly or ReadWrite),  *)
(* writes the byte 1, releases the handle and truncates the path, while  *)
(* the upload worker runs; Release and File.Truncate advance step by      *)
(* step, backend calls may fail, and the shutdown may begin while a       *)
(* truncate is in flight; no Write is issued during a truncate.           *)
(* The history keeps the object the accepted writes would have produced   *)
(* (want) and the accepted bytes still on their way (acc), as in          *)
(* SpecWrite, and whether a truncate of the path was asked for (tg.phase).*)
(* ====================================================================== *)

CloseOpen ==
    \E flags \in {0, O_WRONLY, O_RDWR} :
        /\ \A h \in Handles : fh[h].st = "unused"
        /\ FileOpen(1, flags, "ok", TRUE)
        /\ ObserveOpen
CloseWrite ==
    \E h \in Handles, off \in 0..(MaxSize - 2) :
        /\ Live(h)
        /\ tr[1].pc = "idle"
        /\ WriteEnter(h, <<1>>, off)
        /\ IF Quiet(h)' THEN ObserveWrite(h, off, <<1>>) ELSE UNCHANGED hist
CloseWriteCall ==
    \E h \in Handles, ok \in BOOLEAN :
        /\ WriteCall(h, ok, fh[h].writer)
        /\ ObserveWrite(h, fh[h].call.off, fh[h].call.data)
CloseWorker ==
    \E h \in Handles, ok \in BOOLEAN : WriterWorker(h, ok) /\ ObserveUpload(h)
\* the kernel releases a handle once its requests are answered
CloseRelease ==
    \E h \in Handles :
        Live(h) /\ Quiet(h) /\ ReleaseReader(h) /\ UNCHANGED hist
CloseReleaseStep ==
    \E h \in Handles, ok \in BOOLEAN : ReleaseStep(h, ok) /\ ObserveUpload(h)
CloseRemove ==
    \E h \in Handles : CloseFuncRemove(h) /\ UNCHANGED hist
CloseClose ==
    \E h \in Handles : CloseFuncClose(h) /\ UNCHANGED hist
CloseTruncEnter ==
    /\ \A h \in Handles : Quiet(h)
    /\ \E o \in Outcomes : TruncateEnter(1, 0, o)
    /\ hist' = [hist EXCEPT !.tg.phase = 1]
CloseTruncLookup ==
    \E o \in Outcomes : TruncateLookup(1, o) /\ UNCHANGED hist
CloseTruncCall ==
    \E ok \in BOOLEAN : TruncateCall(1, ok) /\ UNCHANGED hist
CloseTruncReturn ==
    TruncateReturn(1) /\ UNCHANGED hist
CloseTerminate ==
    tr[1].pc \in {"locked", "found"} /\ Terminate /\ UNCHANGED hist

NextClose ==
    \/ CloseOpen
    \/ CloseWrite
    \/ CloseWriteCall
    \/ CloseWorker
    \/ CloseRelease
    \/ CloseReleaseStep
    \/ CloseRemove
    \/ CloseClose
    \/ CloseTruncEnter
    \/ CloseTruncLookup
    \/ CloseTruncCall
    \/ CloseTruncReturn
    \/ CloseTerminate

SpecClose == Init /\ [][NextClose]_vars

\* the same, where a goroutine or a running call that can take a step
\* eventually takes one
SpecCloseFair ==
    /\ SpecClose
    /\ WF_vars(CloseWriteCall)
    /\ WF_vars(CloseWorker)
    /\ WF_vars(CloseReleaseStep)
    /\ WF_vars(CloseRemove)
    /\ WF_vars(CloseClose)
    /\ WF_vars(CloseTruncLookup)
    /\ WF_vars(CloseTruncCall)
    /\ WF_vars(CloseTruncReturn)

(* ------------------------------ C26 ----------------------------------- *)

\* C26: Release removes the handle from the registry before closing its
\* backend handle, and in every interleaving of Release(h) with a
\* File.Truncate on the path of h no backend Truncate is issued on the
\* backend handle of h after its Close was called.
C26_RemoveThenClose ==
    [][/\ \A h \in Handles :
            (~fh[h].closed /\ fh'[h].closed) => ~Registered(h)
       /\ (tr[1].pc = "found" /\ tr'[1].pc = "ret" /\ tr'[1].issued = 1) =>
            \A h \in tr[1].called : ~fh[h].closed]_vars

(* ------------------------------ C27 ----------------------------------- *)

\* C27: for a handle that is not ReadOnly, Release is synchronous and
\* ordered: every write accepted before Release is acknowledged by the
\* backend before the backend Close is called, the Close has completed by
\* the time Release returns, and the writer is never left with accepted
\* bytes it did not hand to the backend.
C27_SynchronousRelease ==
    [][/\ \A h \in Handles :
            (~fh[h].closed /\ fh'[h].closed /\ ~IsReadOnly(fh[h].mode)) =>
                /\ wr[h] = NoWriter
                /\ hist.acc = << >>
                /\ hist.tg.phase = 0 => backend[fh[h].file] = hist.want
       /\ (ret'.op = "Release" /\ ret'.errno # "ECONNABORTED"
             /\ ~IsReadOnly(fh'[ret'.h].mode)) =>
                /\ fh'[ret'.h].closed
                /\ wr'[ret'.h] = NoWriter]_vars

(* ------------------------------ C28 ----------------------------------- *)

\* Release was invoked on h with the termination flag unset
ReleaseInvoked(h) ==
    \/ fh[h].rel # ""
    \/ fh[h].closing
    \/ ret.op = "Release" /\ ret.h = h /\ ret.errno # "ECONNABORTED"

\* C28: every handle on which Release is invoked while the termination
\* flag is unset eventually has its backend handle closed and its registry
\* entry removed, in the background for a ReadOnly handle, and also when
\* the reader or the writer reports its error during Release.
C28_EventuallyClosed ==
    \A h \in Handles :
        ReleaseInvoked(h) ~> (fh[h].closed /\ ~Registered(h))

(* ------------------------------ C29 ----------------------------------- *)

\* C29: the termination flag is consulted at the entry of an operation
\* only: a File.Truncate that passed its entry check and found a
\* write-mode handle gets from that handle's Truncate the result, and the
\* backend the effect, they would have had with the flag never set.
C29_EntryOnly ==
    [][(tr[1].pc = "found" /\ tr'[1].pc = "ret") =>
          \E h \in tr[1].called, ok \in BOOLEAN :
              LET t == HandleTruncateUnguarded(h, tr[1].size, ok)
              IN  /\ tr'[1].errno = t.errno
                  /\ tr'[1].issued = t.issued
                  /\ backend'[1] = t.c]_vars

(* ------------------------------ C30 ----------------------------------- *)

\* the errnos of the error model, with the two of extended attributes
ErrnoModel ==
    {"OK", "ENOENT", "EACCES", "EROFS", "EBADFD", "EINVAL", "EAGAIN",
     "ENOLCK", "ETIMEDOUT", "EIO", "ENOTSUP", "ECONNABORTED", "ERANGE",
     "ENODATA"}

\* C30: every errno an operation returns is OK or one of the errnos of
\* the error model; in particular opening a virtual directory gives
\* EACCES and a failure of the backend open gives EIO.
C30_ErrnoModel ==
    /\ ret.errno \in ErrnoModel
    /\ (ret.op = "Open" /\ VPathKind(ret.f) = "virtual") => ret.errno = "EACCES"
    /\ (/\ ret.op = "Open"
        /\ VPathKind(ret.f) = "remote"
        /\ ~(VPathReadOnly(ret.f) /\ OpenModeOf(hist.oflags) # FileOpenModeReadOnly)
        /\ hist.ores[1] = "fail") => ret.errno = "EIO"

(* ====================================================================== *)
(* SpecXattr: the extended attributes of a file of the writable remote    *)
(* mapping and of a virtual directory. The kernel sets, reads, lists and  *)
(* removes the ordinary attribute 1 and the internal attribute 2 with     *)
(* destination buffers shorter than, as long as and longer than the       *)
(* answers; another client of the backend may attach the internal         *)
(* attribute to the object; backend calls may fail. The history keeps the *)
(* arguments of the last call (xa) and, for each object and attribute,    *)
(* what the last Setxattr or Removexattr that returned OK left (xl).      *)
(* ====================================================================== *)

\* the values set: empty, one byte, two bytes
XaValues == {<< >>, <<1>>, <<1, 2>>}

\* the lengths of the destination buffers, up to two 0-terminated names
XaDests == {0, 1, 2, 4}

\* the paths: a file of the writable remote mapping, a virtual directory
XaFiles == {1, 3}

XaCall(f, a, dest, o) ==
    [hist EXCEPT !.tick = 1 - @,
                 !.xa = [f |-> f, a |-> a, dest |-> dest, o |-> o]]

\* what the history keeps of a Setxattr or Removexattr: the value, or
\* NoValue, once the call returned OK
XaLeft(f, a, v) ==
    IF f \in RemoteFiles /\ ret'.errno = "OK"
    THEN [hist.xl EXCEPT ![f][a] = v] ELSE hist.xl

XaSet ==
    \E f \in XaFiles, a \in Attrs, v \in XaValues, o \in Outcomes :
        /\ FileSetxattr(f, a, v, o)
        /\ hist' = [XaCall(f, a, 0, o) EXCEPT !.xl = XaLeft(f, a, v)]
\* a Removexattr returns at once when GetXattr did not give the
\* attribute, else when its RemoveXattr is answered
XaRemove ==
    \E f \in XaFiles, a \in Attrs, o \in Outcomes :
        /\ RemovexattrGet(f, a, o)
        /\ IF tr'[f] = tr[f] THEN hist' = XaCall(f, a, 0, o) ELSE UNCHANGED hist
XaRemoveCall ==
    \E f \in XaFiles, a \in Attrs, o \in Outcomes :
        /\ RemovexattrRemove(f, a, o)
        /\ hist' = [XaCall(f, a, 0, o) EXCEPT !.xl = XaLeft(f, a, NoValue)]
XaGet ==
    \E f \in XaFiles, a \in Attrs, d \in XaDests, o \in Outcomes :
        /\ FileGetxattr(f, a, d, o)
        /\ hist' = XaCall(f, a, d, o)
XaList ==
    \E f \in XaFiles, d \in XaDests, o \in Outcomes :
        /\ FileListxattr(f, d, o)
        /\ hist' = XaCall(f, 0, d, o)
\* another client of the backend attaches the internal attribute
XaForeign ==
    \E f \in XaFiles \cap RemoteFiles :
        /\ xattrs[f][2] = NoValue
        /\ xattrs' = [xattrs EXCEPT ![f][2] = <<1>>]
        /\ hist' = [hist EXCEPT !.xl[f][2] = <<-2>>]
        /\ UNCHANGED <<terminated, fileHandleMap, fh, wr, rd, backend, tr, locks, ret>>

NextXattr ==
    \/ XaSet
    \/ XaRemove
    \/ XaRemoveCall
    \/ XaGet
    \/ XaList
    \/ XaForeign

SpecXattr == Init /\ [][NextXattr]_vars

\* the step is a call of op that reached the backend and was answered
XaStep(op) ==
    /\ hist'.tick # hist.tick
    /\ ret'.op = op
    /\ ~terminated
    /\ VPathKind(hist'.xa.f) = "remote"
    /\ hist'.xa.o = "ok"

(* ------------------------------ C31 ----------------------------------- *)

\* C31: Listxattr and Getxattr return the required size with ERANGE and
\* copy nothing when the destination is shorter than the bytes to return,
\* and the required size with OK and exactly those bytes otherwise;
\* Getxattr of an attribute the backend does not have, or of an unhandled
\* internal attribute, returns ENODATA.
C31_XattrSizes ==
    [][LET x == hist'.xa
           Answer(bytes) ==
               IF x.dest < Len(bytes)
               THEN ret'.errno = "ERANGE" /\ ret'.n = Len(bytes) /\ ret'.data = << >>
               ELSE ret'.errno = "OK" /\ ret'.n = Len(bytes) /\ ret'.data = bytes
       IN  /\ XaStep("Listxattr") => Answer(NamesOf(xattrs[x.f], Attrs))
           /\ (XaStep("Getxattr") /\ ~IsUnhandledAttr(x.a)
                 /\ xattrs[x.f][x.a] # NoValue) => Answer(xattrs[x.f][x.a])
           /\ (XaStep("Getxattr") /\ xattrs[x.f][x.a] = NoValue) =>
                 ret'.errno = "ENODATA"
           /\ (hist'.tick # hist.tick /\ ret'.op = "Getxattr" /\ ~terminated
                 /\ IsUnhandledAttr(x.a)) => ret'.errno = "ENODATA"]_vars

\* Getxattr of a two-byte value into a one-byte destination returned
\* ERANGE with the required size 2 and no data
C31_Witness ==
    /\ ret.op = "Getxattr"
    /\ ret.errno = "ERANGE"
    /\ ret.n = 2
    /\ ret.data = << >>
    /\ hist.xa.dest = 1
    /\ xattrs[hist.xa.f][hist.xa.a] = <<1, 2>>

(* ------------------------------ C32 ----------------------------------- *)

\* C32: on a file of a writable remote mapping, after Setxattr(k, v)
\* returned OK Getxattr(k) returns v; after Removexattr(k) then returned
\* OK, Getxattr(k) returns ENODATA and a second Removexattr(k), called
\* after the first returned, returns ENODATA.
C32_XattrRoundTrip ==
    [][LET x == hist'.xa
           Writable == x.f \in RemoteFiles /\ ~VPathReadOnly(x.f)
       IN  /\ (XaStep("Getxattr") /\ Writable /\ x.dest >= 2
                 /\ hist.xl[x.f][x.a] \in XaValues) =>
                 (ret'.errno = "OK" /\ ret'.data = hist.xl[x.f][x.a])
           /\ (XaStep("Getxattr") /\ Writable /\ hist.xl[x.f][x.a] = NoValue) =>
                 ret'.errno = "ENODATA"
           /\ (XaStep("Removexattr") /\ Writable /\ hist.xl[x.f][x.a] = NoValue
                 /\ tr'[x.f].rx = tr[x.f].rx) =>
                 ret'.errno = "ENODATA"]_vars

\* Getxattr returned ENODATA for the ordinary attribute of file 1 after a
\* Setxattr and then a Removexattr of it had returned OK
C32_Witness ==
    /\ ret.op = "Getxattr"
    /\ ret.errno = "ENODATA"
    /\ hist.xa.f = 1
    /\ hist.xa.a = 1
    /\ hist.xa.o = "ok"
    /\ hist.xl[1][1] = NoValue

(* ====================================================================== *)
(* SpecSetattr: Setattr on a file, on a virtual directory and on an open  *)
(* handle, one call at a time. The kernel opens one handle on file 1      *)
(* (ReadOnly or WriteOnly) and calls File.Setattr and FileHandle.Setattr  *)
(* with and without a size; File.Setattr with a size runs File.Truncate   *)
(* to its return; backend calls may fail. The history keeps the arguments *)
(* of the last Setattr and the object as it was when the call began (sa). *)
(* ====================================================================== *)

\* the sizes asked for: shorter and longer than the object
SaSizes == {1, MaxSize}

\* the paths: a file of the writable remote mapping, a virtual directory
SaFiles == {1, 3}

SaCall(f, h, hasSize, size, o) ==
    [f |-> f, h |-> h, hasSize |-> hasSize, size |-> size, o |-> o,
     pre |-> IF f \in RemoteFiles THEN backend[f] ELSE << >>]

SaOpen ==
    /\ \A h \in Handles : fh[h].st = "unused"
    /\ \E flags \in {0, O_WRONLY} : FileOpen(1, flags, "ok", TRUE)
    /\ UNCHANGED hist
SaFileSetattr ==
    \E f \in SaFiles, b \in BOOLEAN, size \in SaSizes, o \in Outcomes :
        /\ \A g \in Files : tr[g].pc = "idle"
        /\ FileSetattr(f, b, size, o)
        /\ hist' = [hist EXCEPT !.sa = SaCall(f, 0, b, size, o),
                                !.tick = IF tr'[f].pc = "idle" THEN 1 - @ ELSE @]
SaTruncLookup ==
    \E f \in SaFiles, o \in Outcomes : TruncateLookup(f, o) /\ UNCHANGED hist
SaTruncCall ==
    \E f \in SaFiles, ok \in BOOLEAN : TruncateCall(f, ok) /\ UNCHANGED hist
SaReturn ==
    \E f \in SaFiles :
        TruncateReturn(f) /\ hist' = [hist EXCEPT !.tick = 1 - @]
SaHandleSetattr ==
    \E h \in Handles, b \in BOOLEAN, size \in SaSizes, ok \in BOOLEAN :
        /\ Live(h)
        /\ \A g \in Files : tr[g].pc = "idle"
        /\ FileHandleSetattr(h, b, size, ok)
        /\ hist' = [hist EXCEPT !.sa = SaCall(fh[h].file, h, b, size,
                                              IF ok THEN "ok" ELSE "fail"),
                                !.tick = 1 - @]

NextSetattrSpec ==
    \/ SaOpen
    \/ SaFileSetattr
    \/ SaTruncLookup
    \/ SaTruncCall
    \/ SaReturn
    \/ SaHandleSetattr

SpecSetattr == Init /\ [][NextSetattrSpec]_vars

(* ------------------------------ C33 ----------------------------------- *)

\* C33: Setattr acts only on size: without a size it returns OK, makes no
\* backend call and changes no state; with a size it returns exactly the
\* result of the corresponding Truncate (the object has the new size when
\* it returned OK and is untouched otherwise), and reports the new size in
\* its reply only when that Truncate returned OK.
C33_SetattrSizeOnly ==
    [][(hist'.tick # hist.tick /\ ret'.op \in {"FileSetattr", "Setattr"}
          /\ ~terminated) =>
          LET s == hist'.sa
          IN  /\ ~s.hasSize =>
                    /\ ret'.errno = "OK"
                    /\ ret'.n = 0
                    /\ <<terminated, fileHandleMap, fh, wr, rd, backend, tr,
                         locks, xattrs>>' =
                       <<terminated, fileHandleMap, fh, wr, rd, backend, tr,
                         locks, xattrs>>
              /\ s.hasSize =>
                    /\ ret'.n = IF ret'.errno = "OK" THEN s.size ELSE 0
                    /\ ret'.errno = "OK" => Len(backend'[s.f]) = s.size
                    /\ ret'.errno # "OK" =>
                           (s.f \in RemoteFiles => backend'[s.f] = s.pre)
                    /\ ret'.op = "Setattr" =>
                           ret'.errno =
                               HandleTruncate(s.h, s.size, s.o = "ok").errno
                    /\ (ret'.op = "FileSetattr" /\ tr[s.f].pc = "ret") =>
                           ret'.errno = tr[s.f].errno]_vars

\* FileHandle.Setattr with the size 1 failed at the backend on a WriteOnly
\* handle: it returned EREMOTEIO, reported no size and left the object
C33_Witness ==
    /\ ret.op = "Setattr"
    /\ ret.errno = "EREMOTEIO"
    /\ ret.n = 0
    /\ hist.sa.hasSize
    /\ hist.sa.size = 1
    /\ IsWriteMode(fh[hist.sa.h].mode)
    /\ backend[1] = hist.sa.pre

(* ====================================================================== *)
(* commons: ParsePoolServiceEndpoint and Config.Validate                  *)
(* ====================================================================== *)

(* An endpoint string is a sequence of tokens: the words tcp, TCP, unix   *)
(* and h (a name that begins with a letter and is none of the others), a  *)
(* run of digits 9, the colon and the slash.                              *)
EpSyms == {"tcp", "TCP", "unix", "h", "9", ":", "/"}

IsLetters(c) == c \in {"tcp", "TCP", "unix", "h"}
IsDigits(c) == c = "9"

\* strings.ToLower
ToLower(s) == [i \in 1..Len(s) |-> IF s[i] = "TCP" THEN "tcp" ELSE s[i]]

\* strings.Index and strings.LastIndex of a token, 0 when there is none
IndexOf(s, c) ==
    IF \E i \in 1..Len(s) : s[i] = c
    THEN CHOOSE i \in 1..Len(s) : s[i] = c /\ \A j \in 1..(i - 1) : s[j] # c
    ELSE 0
LastIndexOf(s, c) ==
    IF \E i \in 1..Len(s) : s[i] = c
    THEN CHOOSE i \in 1..Len(s) : s[i] = c /\ \A j \in (i + 1)..Len(s) : s[j] # c
    ELSE 0

HasPrefix(s, p) == Len(s) >= Len(p) /\ SubSeq(s, 1, Len(p)) = p

\* net/url getScheme: the letters, digits after the first character, up
\* to the first colon; a colon at the start is an error; any other
\* character means there is no scheme
GetScheme(s) ==
    LET Stops == {i \in 1..Len(s) : ~IsLetters(s[i]) /\ ~(IsDigits(s[i]) /\ i > 1)}
        i == CHOOSE k \in Stops : \A j \in Stops : k <= j
    IN  IF Stops = {} THEN [err |-> FALSE, scheme |-> << >>, rest |-> s]
        ELSE IF s[i] # ":" THEN [err |-> FALSE, scheme |-> << >>, rest |-> s]
        ELSE IF i = 1 THEN [err |-> TRUE, scheme |-> << >>, rest |-> << >>]
        ELSE [err |-> FALSE, scheme |-> SubSeq(s, 1, i - 1),
              rest |-> SubSeq(s, i + 1, Len(s))]

\* net/url parseHost: what follows the last colon must be digits
ValidHost(a) ==
    LET i == LastIndexOf(a, ":")
    IN  i # 0 => \A j \in (i + 1)..Len(a) : IsDigits(a[j])

NoURL == [err |-> TRUE, scheme |-> << >>, host |-> << >>, path |-> << >>]

\* url.Parse: [err, scheme, host, path]
UrlParse(s) ==
    LET g == GetScheme(s)
        scheme == ToLower(g.scheme)
        rest == g.rest
        slash == IndexOf(rest, "/")
        segment == IF slash = 0 THEN rest ELSE SubSeq(rest, 1, slash - 1)
        after == SubSeq(rest, 3, Len(rest))
        cut == IndexOf(after, "/")
        authority == IF cut = 0 THEN after ELSE SubSeq(after, 1, cut - 1)
        tail == IF cut = 0 THEN << >> ELSE SubSeq(after, cut, Len(after))
    IN  IF g.err THEN NoURL
        ELSE IF ~HasPrefix(rest, <<"/">>) /\ scheme # << >>
        THEN [err |-> FALSE, scheme |-> scheme, host |-> << >>, path |-> << >>]
        ELSE IF ~HasPrefix(rest, <<"/">>) /\ IndexOf(segment, ":") # 0
        THEN NoURL
        ELSE IF /\ scheme # << >> \/ ~HasPrefix(rest, <<"/", "/", "/">>)
                /\ HasPrefix(rest, <<"/", "/">>)
        THEN IF ValidHost(authority)
             THEN [err |-> FALSE, scheme |-> scheme, host |-> authority,
                   path |-> tail]
             ELSE NoURL
        ELSE [err |-> FALSE, scheme |-> scheme, host |-> << >>, path |-> rest]

RECURSIVE PathClean(_)
\* path.Join("/", p): the non-empty elements of p, each behind one slash
PathClean(p) ==
    IF p = << >> THEN << >>
    ELSE IF Head(p) = "/" THEN PathClean(Tail(p))
    ELSE LET i == IndexOf(p, "/")
             n == IF i = 0 THEN Len(p) ELSE i - 1
         IN  <<"/">> \o SubSeq(p, 1, n) \o PathClean(SubSeq(p, n + 1, Len(p)))

PathJoinRoot(p) == IF PathClean(p) = << >> THEN <<"/">> ELSE PathClean(p)

NoEndpoint == [err |-> TRUE, scheme |-> "", addr |-> << >>]

\* ParsePoolServiceEndpoint: [err, scheme, addr]
ParsePoolServiceEndpoint(endpoint) ==
    LET u == UrlParse(endpoint)
    IN  IF u.err THEN NoEndpoint
        ELSE IF u.scheme = <<"tcp">>
        THEN [err |-> FALSE, scheme |-> "tcp", addr |-> u.host]
        ELSE IF u.scheme = <<"unix">>
        THEN [err |-> FALSE, scheme |-> "unix", addr |-> PathJoinRoot(u.path)]
        ELSE IF u.scheme = << >> /\ u.host # << >>
        THEN [err |-> FALSE, scheme |-> "tcp", addr |-> u.host]
        ELSE NoEndpoint

(* A Config as Validate reads it. The strings are "" or not; PathMappings *)
(* is the number of mappings and MappingsValid the answer of              *)
(* ValidateVPathMappings; MountStat is what os.Stat gives for MountPath   *)
(* (a directory with or without the owner's write bit, a regular file, or *)
(* an error) and CACertStat what it gives for CACertificateFile (a file,  *)
(* ENOENT, or ENOTDIR for a path that runs through a regular file).       *)
ValidConfig ==
    [Host |-> "data.example.org", Port |-> 1247,
     Profile |-> FALSE, ProfileServicePort |-> 11021,
     ProxyUser |-> "rods", ClientUser |-> "rods", Zone |-> "tempZone",
     Password |-> "secret", PathMappings |-> 1, MappingsValid |-> TRUE,
     UID |-> 0, GID |-> 0,
     MountPath |-> "/mnt/irods", MountStat |-> "dir_w",
     DataRootPath |-> "/var/lib/irodsfs",
     ReadAheadMax |-> 0, ConnectionMax |-> 1,
     AuthScheme |-> "native",
     ClientServerNegotiation |-> FALSE, CSNegotiationPolicy |-> "CS_NEG_REFUSE",
     CACertificateFile |-> "/etc/ssl/ca.pem", CACertStat |-> "file",
     EncryptionKeySize |-> 32, EncryptionAlgorithm |-> "AES-256-CBC",
     SaltSize |-> 8, HashRounds |-> 16,
     PoolEndpoint |-> << >>]

\* the values a field takes besides the one of ValidConfig
ConfigChanges ==
    {<<"Host", "">>, <<"Port", 0>>, <<"Port", -1>>,
     <<"Profile", TRUE>>, <<"ProfileServicePort", 0>>,
     <<"ProxyUser", "">>, <<"ClientUser", "">>, <<"Zone", "">>,
     <<"Password", "">>, <<"PathMappings", 0>>, <<"MappingsValid", FALSE>>,
     <<"UID", -1>>, <<"GID", -1>>,
     <<"MountPath", "">>, <<"MountStat", "dir_ro">>, <<"MountStat", "file">>,
     <<"MountStat", "error">>, <<"DataRootPath", "">>,
     <<"ReadAheadMax", -1>>, <<"ReadAheadMax", 131072>>,
     <<"ConnectionMax", 0>>, <<"ConnectionMax", 10>>,
     <<"AuthScheme", "pam">>, <<"AuthScheme", "gsi">>,
     <<"ClientServerNegotiation", TRUE>>, <<"CSNegotiationPolicy", "">>,
     <<"CACertStat", "ENOENT">>, <<"CACertStat", "ENOTDIR">>,
     <<"EncryptionKeySize", 0>>, <<"EncryptionAlgorithm", "">>,
     <<"SaltSize", 0>>, <<"HashRounds", 0>>,
     <<"PoolEndpoint", <<"tcp", ":", "/", "/", "h", ":", "9">>>>,
     <<"PoolEndpoint", <<"h", ":", "9">>>>,
     <<"PoolEndpoint", <<"9">>>>}

\* ValidConfig with up to two fields changed
Configs ==
    {[[ValidConfig EXCEPT ![a[1]] = a[2]] EXCEPT ![b[1]] = b[2]] :
        a \in ConfigChanges, b \in ConfigChanges \cup {<<"Host", ValidConfig.Host>>}}

\* Config.Validate: "OK" for nil, "error" for an error
ConfigValidate(config) ==
    IF config.Host = "" THEN "error"
    ELSE IF config.Port <= 0 THEN "error"
    ELSE IF config.Profile /\ config.ProfileServicePort <= 0 THEN "error"
    ELSE IF config.ProxyUser = "" THEN "error"
    ELSE IF config.ClientUser = "" THEN "error"
    ELSE IF config.Zone = "" THEN "error"
    ELSE IF config.Password = "" THEN "error"
    ELSE IF config.PathMappings = 0 THEN "error"
    ELSE IF ~config.MappingsValid THEN "error"
    ELSE IF config.UID < 0 THEN "error"
    ELSE IF config.GID < 0 THEN "error"
    ELSE IF config.MountPath = "" THEN "error"
    ELSE IF config.MountStat = "error" THEN "error"
    ELSE IF config.MountStat = "file" THEN "error"
    ELSE IF config.MountStat # "dir_w" THEN "error"
    ELSE IF config.DataRootPath = "" THEN "error"
    ELSE IF config.ReadAheadMax < 0 THEN "error"
    ELSE IF config.ConnectionMax < 1 THEN "error"
    ELSE IF config.AuthScheme \notin {"pam", "native"} THEN "error"
    ELSE IF config.ClientServerNegotiation /\ config.CSNegotiationPolicy = ""
    THEN "error"
    ELSE IF config.AuthScheme = "pam" /\ config.CACertStat = "ENOENT" THEN "error"
    ELSE IF config.AuthScheme = "pam" /\ config.EncryptionKeySize <= 0 THEN "error"
    ELSE IF config.AuthScheme = "pam" /\ config.EncryptionAlgorithm = "" THEN "error"
    ELSE IF config.AuthScheme = "pam" /\ config.SaltSize <= 0 THEN "error"
    ELSE IF config.AuthScheme = "pam" /\ config.HashRounds <= 0 THEN "error"
    ELSE IF /\ config.PoolEndpoint # << >>
            /\ ParsePoolServiceEndpoint(config.PoolEndpoint).err
    THEN "error"
    ELSE "OK"

(* ====================================================================== *)
(* SpecCommons: Config.Validate applied to ValidConfig with up to two     *)
(* fields changed, and ParsePoolServiceEndpoint applied to every endpoint *)
(* of up to four tokens and to the longer endpoints of the documented     *)
(* forms. The input is drawn at the start (input) and the function is     *)
(* applied once.                                                          *)
(* ====================================================================== *)

\* the token sequences of length up to n
SeqsUpTo(S, n) == UNION {[1..k -> S] : k \in 0..n}

Endpoints ==
    SeqsUpTo(EpSyms, 4) \cup
    {<<"tcp", ":", "/", "/", "h", ":", "9">>,
     <<"TCP", ":", "/", "/", "h", ":", "9">>,
     <<"tcp", ":", "/", "/", "9", ":", "9">>,
     <<"tcp", ":", "/", "/", "h">>,
     <<"tcp", ":", "/", "/", "h", ":", "h">>,
     <<"tcp", ":", "/", "/", "h", ":", "9", "/", "h">>,
     <<"unix", ":", "/", "/", "/", "h">>,
     <<"unix", ":", "/", "/", "/", "h", "/", "h">>,
     <<"unix", ":", "/", "/", "h", "/", "h">>,
     <<"/", "/", "h", ":", "9">>,
     <<"h", ":", "/", "/", "h", ":", "9">>}

InitCommons ==
    /\ InitModel
    /\ hist \in {[NoHist EXCEPT !.input = [kind |-> "cfg", ep |-> << >>, cfg |-> c]] :
                    c \in Configs}
           \cup {[NoHist EXCEPT !.input = [kind |-> "ep", ep |-> e, cfg |-> << >>]] :
                    e \in Endpoints}

Validate ==
    /\ hist.input.kind = "cfg"
    /\ ret.op = "none"
    /\ ret' = Result("Validate", 0, 0, ConfigValidate(hist.input.cfg), 0, << >>)
    /\ UNCHANGED <<terminated, fileHandleMap, fh, wr, rd, backend, tr, locks, xattrs, hist>>
ParseEndpoint ==
    /\ hist.input.kind = "ep"
    /\ ret.op = "none"
    /\ LET r == ParsePoolServiceEndpoint(hist.input.ep)
       IN  ret' = Result("ParsePoolServiceEndpoint", 0, 0,
                         IF r.err THEN "error" ELSE "OK", 0,
                         IF r.err THEN << >> ELSE <<r.scheme>> \o r.addr)
    /\ UNCHANGED <<terminated, fileHandleMap, fh, wr, rd, backend, tr, locks, xattrs, hist>>

NextCommons ==
    \/ Validate
    \/ ParseEndpoint

SpecCommons == InitCommons /\ [][NextCommons]_vars

(* ------------------------------ C34 ----------------------------------- *)

\* C34: Config.Validate returns nil only for a configuration in which
\* host, proxy user, client user, zone, password, mount path, data root
\* path and path mappings are non-empty, port > 0, connection_max >= 1,
\* read_ahead_max >= 0, the auth scheme is native or pam, pam comes with
\* an existing CA certificate file and non-zero encryption key size,
\* algorithm, salt size and hash rounds, the mount path is an existing
\* writable directory, and a non-empty pool endpoint parses.
C34_Validate ==
    (ret.op = "Validate" /\ ret.errno = "OK") =>
        LET c == hist.input.cfg
        IN  /\ c.Host # "" /\ c.ProxyUser # "" /\ c.ClientUser # ""
            /\ c.Zone # "" /\ c.Password # "" /\ c.MountPath # ""
            /\ c.DataRootPath # "" /\ c.PathMappings > 0
            /\ c.Port > 0
            /\ c.ConnectionMax >= 1
            /\ c.ReadAheadMax >= 0
            /\ c.AuthScheme \in {"native", "pam"}
            /\ c.AuthScheme = "pam" =>
                   /\ c.CACertStat = "file"
                   /\ c.EncryptionKeySize # 0
                   /\ c.EncryptionAlgorithm # ""
                   /\ c.SaltSize # 0
                   /\ c.HashRounds # 0
            /\ c.MountStat = "dir_w"
            /\ c.PoolEndpoint # << >> =>
                   ~ParsePoolServiceEndpoint(c.PoolEndpoint).err

(* ------------------------------ C35 ----------------------------------- *)

\* host:port, the host a name or a number
HostPort(s) == Len(s) = 3 /\ s[1] \in {"h", "9"} /\ s[2] = ":" /\ s[3] = "9"

\* an absolute path: names behind single slashes
AbsPath(s) ==
    /\ Len(s) >= 2
    /\ Len(s) % 2 = 0
    /\ \A i \in 1..Len(s) : IF i % 2 = 1 THEN s[i] = "/" ELSE s[i] = "h"

\* C35: ParsePoolServiceEndpoint maps tcp://host:port to ("tcp",
\* "host:port"), unix:///path to ("unix", "/path") and a bare host:port to
\* ("tcp", "host:port"); every other input yields an error and no
\* endpoint.
C35_ParseEndpoint ==
    ret.op = "ParsePoolServiceEndpoint" =>
        LET e == hist.input.ep
            body == SubSeq(e, 5, Len(e))
            Gives(scheme, addr) ==
                ret.errno = "OK" /\ ret.data = <<scheme>> \o addr
        IN  IF HasPrefix(e, <<"tcp", ":", "/", "/">>) /\ HostPort(body)
            THEN Gives("tcp", body)
            ELSE IF HasPrefix(e, <<"unix", ":", "/", "/">>) /\ AbsPath(body)
            THEN Gives("unix", body)
            ELSE IF HostPort(e) THEN Gives("tcp", e)
            ELSE ret.errno = "error" /\ ret.data = << >>

(* ====================================================================== *)
(* SpecRace: Release beside a Read or a Write of the same handle. The     *)
(* kernel opens one handle on file 1 (ReadOnly, WriteOnly or ReadWrite),  *)
(* reads the first block and writes one byte at the start, step by step,  *)
(* and releases the handle, while the upload worker and closeFunc run;    *)
(* backend calls may fail. The history keeps the pipelines on which       *)
(* Release has called Release (rel).                                      *)
(* ====================================================================== *)

RaceOpen ==
    /\ \A h \in Handles : fh[h].st = "unused"
    /\ \E flags \in {0, O_WRONLY, O_RDWR} : FileOpen(1, flags, "ok", TRUE)
    /\ UNCHANGED hist
RaceReadEnter ==
    \E h \in Handles :
        /\ fh[h].st = "live"
        /\ ReadEnter(h, iRODSIOBlockSize, 0)
        /\ UNCHANGED hist
RaceReadCall ==
    \E h \in Handles, ok \in BOOLEAN, seen \in {"nil", "async", "sync"} :
        ReadCall(h, ok, seen) /\ UNCHANGED hist
RaceWriteEnter ==
    \E h \in Handles :
        /\ fh[h].st = "live"
        /\ WriteEnter(h, <<1>>, 0)
        /\ UNCHANGED hist
RaceWriteCall ==
    \E h \in Handles, ok \in BOOLEAN, seen \in {"nil", "async", "sync"} :
        WriteCall(h, ok, seen) /\ UNCHANGED hist
RaceWorker ==
    \E h \in Handles, ok \in BOOLEAN : WriterWorker(h, ok) /\ UNCHANGED hist
\* reader.Release() is called when the field is set
RaceRelease ==
    \E h \in Handles :
        /\ Live(h)
        /\ ReleaseReader(h)
        /\ hist' = [hist EXCEPT !.rel =
               IF ~terminated /\ fh[h].reader # "nil"
               THEN @ \cup {<<h, "reader">>} ELSE @]
\* writer.Release() is called when the Release stands before the writer
\* and the field is set
RaceReleaseStep ==
    \E h \in Handles, ok \in BOOLEAN :
        /\ ReleaseStep(h, ok)
        /\ hist' = [hist EXCEPT !.rel =
               IF fh[h].rel = "writer" /\ fh[h].writer # "nil"
               THEN @ \cup {<<h, "writer">>} ELSE @]
RaceRemove ==
    \E h \in Handles : CloseFuncRemove(h) /\ UNCHANGED hist
RaceClose ==
    \E h \in Handles : CloseFuncClose(h) /\ UNCHANGED hist

NextRace ==
    \/ RaceOpen
    \/ RaceReadEnter
    \/ RaceReadCall
    \/ RaceWriteEnter
    \/ RaceWriteCall
    \/ RaceWorker
    \/ RaceRelease
    \/ RaceReleaseStep
    \/ RaceRemove
    \/ RaceClose

SpecRace == Init /\ [][NextRace]_vars

(* ------------------------------ C36 ----------------------------------- *)

\* C36: a handle's reader and writer are never used after Release has
\* released them: in every interleaving of Release with a Read or a Write
\* of the handle, no ReadAt or WriteAt call reaches a pipeline on which
\* Release has already called Release.
C36_NoUseAfterRelease ==
    [][\A h \in Handles :
          /\ (fh[h].call.op = "Read" /\ fh'[h].call = NoCall
                /\ ret'.errno # "panic") => <<h, "reader">> \notin hist.rel
          /\ (fh[h].call.op = "Write" /\ fh'[h].call = NoCall
                /\ ret'.errno # "panic") => <<h, "writer">> \notin hist.rel]_vars

(* ====================================================================== *)
(* SpecSize: the size changes of file 1 beside each other and beside the  *)
(* readers of the File node. The kernel opens up to two handles on file 1 *)
(* (WriteOnly), truncates the path to 0 with File.Truncate and with       *)
(* File.Setattr, sets the size 1 on an open handle with                   *)
(* FileHandle.Setattr, and calls Getattr, Getxattr and Listxattr on the   *)
(* path; File.Truncate and the handle's Truncate advance step by step;    *)
(* backend calls may fail.                                                *)
(* ====================================================================== *)

\* the size changes of file f in progress: a File.Truncate that holds
\* file.mutex, and the handles' Truncate calls that have not returned
SizeChanges(f) ==
    (IF tr[f].pc # "idle" THEN 1 ELSE 0)
    + Cardinality({h \in Handles : fh[h].file = f
                                     /\ fh[h].call.op \in {"Truncate", "Setattr"}})

SizeTick == hist' = [hist EXCEPT !.tick = 1 - @]

SizeOpen ==
    /\ Cardinality({h \in Handles : fh[h].st # "unused"}) < 2
    /\ FileOpen(1, O_WRONLY, "ok", TRUE)
    /\ SizeTick
SizeGetattr ==
    \E o \in Outcomes : FileGetattr(1, o) /\ SizeTick
SizeGetxattr ==
    \E o \in Outcomes : FileGetxattr(1, 1, 1, o) /\ SizeTick
SizeListxattr ==
    \E o \in Outcomes : FileListxattr(1, 2, o) /\ SizeTick
SizeTruncate ==
    \E o \in Outcomes : TruncateEnter(1, 0, o) /\ UNCHANGED hist
SizeSetattr ==
    \E o \in Outcomes : FileSetattr(1, TRUE, 0, o) /\ UNCHANGED hist
SizeLookup ==
    \E o \in Outcomes : TruncateLookup(1, o) /\ UNCHANGED hist
SizeCall ==
    \E ok \in BOOLEAN : TruncateCall(1, ok) /\ UNCHANGED hist
SizeReturn ==
    TruncateReturn(1) /\ UNCHANGED hist
SizeHandleEnter ==
    \E h \in Handles :
        Live(h) /\ HandleTruncateEnter("Setattr", h, 1) /\ UNCHANGED hist
SizeHandleCall ==
    \E h \in Handles, ok \in BOOLEAN : HandleTruncateCall(h, ok) /\ UNCHANGED hist

NextSize ==
    \/ SizeOpen
    \/ SizeGetattr
    \/ SizeGetxattr
    \/ SizeListxattr
    \/ SizeTruncate
    \/ SizeSetattr
    \/ SizeLookup
    \/ SizeCall
    \/ SizeReturn
    \/ SizeHandleEnter
    \/ SizeHandleCall

SpecSize == Init /\ [][NextSize]_vars

(* ------------------------------ C37 ----------------------------------- *)

\* C37: size changes of one file are mutually exclusive: at most one
\* truncate of a path is in progress at any time, and none overlaps an
\* Open, Getattr, Getxattr or Listxattr on the same File node, whether it
\* arrives as File.Truncate, as File.Setattr with a size or as
\* FileHandle.Setattr with a size on an open handle.
C37_SizeExclusive ==
    [][/\ \A f \in RemoteFiles : SizeChanges(f)' <= 1
       /\ (hist'.tick # hist.tick
             /\ ret'.op \in {"Open", "FileGetattr", "Getxattr", "Listxattr"}) =>
             SizeChanges(ret'.f) = 0]_vars

(* ====================================================================== *)
(* SpecRepeat: Release called again. The kernel opens one handle on file  *)
(* 1 or 3 (ReadOnly, WriteOnly or ReadWrite), writes to it and calls      *)
(* Release up to MaxReleases times, each call after the one before has    *)
(* returned, also while the closeFunc a Release of a ReadOnly handle      *)
(* started has not run, and beside the Writes of the handle and the       *)
(* upload worker; backend calls may fail. The history counts, for each    *)
(* handle, the Release calls, the registry Removes and the backend Closes *)
(* (cnt).                                                                 *)
(* ====================================================================== *)

RepeatOpen ==
    /\ \A h \in Handles : fh[h].st = "unused"
    /\ \E f \in {1, 3}, flags \in {0, O_WRONLY, O_RDWR} :
           FileOpen(f, flags, "ok", TRUE)
    /\ UNCHANGED hist
RepeatWrite ==
    \E h \in Handles, data \in {<<1>>, <<2, 2>>}, off \in {0, 1} :
        fh[h].st = "live" /\ WriteEnter(h, data, off) /\ UNCHANGED hist
RepeatWriteCall ==
    \E h \in Handles, ok \in BOOLEAN :
        WriteCall(h, ok, fh[h].writer) /\ UNCHANGED hist
RepeatWorker ==
    \E h \in Handles, ok \in BOOLEAN : WriterWorker(h, ok) /\ UNCHANGED hist
\* a Release returned when none of its steps is still to run: not a
\* step up to the start of closeFunc, nor the closeFunc of a handle that
\* is not ReadOnly
RepeatReturned(h) ==
    /\ fh[h].rel = ""
    /\ \/ fh[h].st \in {"live", "closed"}
       \/ fh[h].st \in {"closing", "removed"} /\ IsReadOnly(fh[h].mode)

RepeatRelease ==
    \E h \in Handles :
        /\ RepeatReturned(h)
        /\ hist.cnt[h].release < MaxReleases
        /\ ReleaseReader(h)
        /\ hist' = [hist EXCEPT !.cnt[h].release = @ + 1]
RepeatReleaseStep ==
    \E h \in Handles, ok \in BOOLEAN : ReleaseStep(h, ok) /\ UNCHANGED hist
RepeatRemove ==
    \E h \in Handles :
        CloseFuncRemove(h) /\ hist' = [hist EXCEPT !.cnt[h].remove = @ + 1]
RepeatClose ==
    \E h \in Handles :
        CloseFuncClose(h) /\ hist' = [hist EXCEPT !.cnt[h].close = @ + 1]

NextRepeat ==
    \/ RepeatOpen
    \/ RepeatWrite
    \/ RepeatWriteCall
    \/ RepeatWorker
    \/ RepeatRelease
    \/ RepeatReleaseStep
    \/ RepeatRemove
    \/ RepeatClose

SpecRepeat == Init /\ [][NextRepeat]_vars

(* ------------------------------ C38 ----------------------------------- *)

\* C38: for every handle and every sequence of Release calls on it, the
\* backend handle's Close is called at most once and the registry Remove
\* for its id is performed at most once.
C38_CloseOnce ==
    \A h \in Handles : hist.cnt[h].close <= 1 /\ hist.cnt[h].remove <= 1

(* ------------------------------ C39 ----------------------------------- *)

\* the backend handles the Open returning in this step obtained from the
\* backend OpenFile
ObtainedByOpen == {h \in Handles : fh[h].st = "unused" /\ fh'[h].st # "unused"}

\* C39: no backend handle is leaked by Open: every backend handle obtained
\* from the backend OpenFile inside File.Open is, when Open returns, either
\* registered in the handle registry (Open returned OK) or already closed
\* (Open returned an error).
C39_NoLeak ==
    [][OpenCall =>
          \A h \in ObtainedByOpen :
              IF ret'.errno = "OK"
              THEN h \in fileHandleMap'.ids
              ELSE fh'[h].closed]_vars

(* ------------------------------ C40 ----------------------------------- *)

\* C40: after any sequence of GetLocalLock, SetLocalLock and SetLocalLockW
\* calls on a handle, its lock table contains no two records whose byte
\* ranges intersect unless both are Read locks, and contains no record of
\* type Unlock.
C40_LockTable ==
    \A h \in Handles :
        /\ \A a, b \in locks[h] :
               (a # b /\ Intersects(a, b.start, b.end)) =>
                   (a.type = F_RDLCK /\ b.type = F_RDLCK)
        /\ \A l \in locks[h] : l.type # F_UNLCK

\* a SetLocalLock(Read) returned OK and the table holds two Read records
\* of different ranges sharing a byte
C40_Witness ==
    /\ ret.op = "SetLocalLock"
    /\ ret.errno = "OK"
    /\ hist.lk.type = F_RDLCK
    /\ \E a, b \in locks[ret.h] :
           /\ a # b
           /\ Intersects(a, b.start, b.end)
           /\ a.type = F_RDLCK
           /\ b.type = F_RDLCK
           /\ a.start # b.start

=============================================================================
